---- MODULE Spec2Model ----
(***************************************************************************)
(* Hampter Link: UDP discovery, tie-break/dedup admission and the QUIC     *)
(* link lifecycle of the mesh orchestrator (src/main.py and                *)
(* src/src/protocol, src/src/networking), the broadcast of user input      *)
(* (handle_input), the stream events of the protocol classes and the lane  *)
(* engine (HampterNode).                                                   *)
(*                                                                         *)
(* Texts on which the code works character by character (IP addresses,     *)
(* registry keys) are sequences of one-character strings.                  *)
(***************************************************************************)
EXTENDS Integers, Sequences, FiniteSets, TLC

VARIABLES
    peers,           \* HamperLinkApp.peers of every node: key -> entry
    connecting_ips,  \* HamperLinkApp.connecting_ips of every node
    tasks,           \* the connect_quic tasks, each with its QuicClient
    srv,             \* the HampterProtocol instance serving the connection of a task
    peername,        \* whether the listener's transport names the remote address
    up,              \* the nodes that are switched on
    rx,              \* the datagram under observation and the path it took
    heard,           \* what became of the datagrams handled before the one in rx
    call             \* the call or stream event under observation and what it did

vars == <<peers, connecting_ips, tasks, srv, peername, up, rx, heard, call>>

----------------------------------------------------------------------------
\* Bounds of the model

\* connect_quic tasks alive at one time (all nodes together)
MaxTasks == 3

\* HandshakeCompleted events delivered to one server-side protocol instance
MaxSignals == 2

\* datagrams remembered after the discovery socket has handled them
MaxHeard == 2

\* send calls made on one HampterNode, texts sent on one Chatter stream
MaxSends == 3

\* rounds of the broadcast loop that are followed
MaxTicks == 6

----------------------------------------------------------------------------
\* Characters and texts

Ord(c) ==
    CASE c = "." -> 46
      [] c = "0" -> 48 [] c = "1" -> 49 [] c = "2" -> 50 [] c = "3" -> 51
      [] c = "4" -> 52 [] c = "5" -> 53 [] c = "6" -> 54 [] c = "7" -> 55
      [] c = "8" -> 56 [] c = "9" -> 57
      [] c = "U" -> 85
      [] c = "k" -> 107 [] c = "n" -> 110 [] c = "o" -> 111 [] c = "w" -> 119
      [] c = "x" -> 120

IsDigit(c) == Ord(c) >= 48 /\ Ord(c) <= 57

\* Python's str > str: code point by code point, a proper prefix is smaller
RECURSIVE StrGreater(_, _)
StrGreater(a, b) ==
    IF a = <<>> THEN FALSE
    ELSE IF b = <<>> THEN TRUE
    ELSE IF Ord(Head(a)) # Ord(Head(b)) THEN Ord(Head(a)) > Ord(Head(b))
    ELSE StrGreater(Tail(a), Tail(b))

\* str.split('.')
RECURSIVE SplitDots(_)
SplitDots(s) ==
    IF \A i \in 1..Len(s) : s[i] # "." THEN <<s>>
    ELSE LET i == CHOOSE k \in 1..Len(s) :
                      s[k] = "." /\ \A j \in 1..(k - 1) : s[j] # "."
         IN  <<SubSeq(s, 1, i - 1)>> \o SplitDots(SubSeq(s, i + 1, Len(s)))

RECURSIVE DecimalValue(_)
DecimalValue(o) ==
    IF o = <<>> THEN 0
    ELSE DecimalValue(SubSeq(o, 1, Len(o) - 1)) * 10 + (Ord(o[Len(o)]) - 48)

\* one octet of a dotted quad as ipaddress accepts it: 1..3 decimal digits,
\* no leading zero, at most 255
OctetOk(o) ==
    /\ Len(o) >= 1 /\ Len(o) <= 3
    /\ \A i \in 1..Len(o) : IsDigit(o[i])
    /\ (Len(o) > 1 => o[1] # "0")
    /\ DecimalValue(o) <= 255

\* ipaddress.ip_address(s) does not raise (the texts of the model hold no ':',
\* so the IPv6 parser never accepts)
ParsesAsIp(s) ==
    LET parts == SplitDots(s)
    IN  Len(parts) = 4 /\ \A i \in 1..4 : OctetOk(parts[i])

\* int(ipaddress.ip_address(s)) of a text that parses
IpInt(s) ==
    LET parts == SplitDots(s)
    IN  ((DecimalValue(parts[1]) * 256 + DecimalValue(parts[2])) * 256
            + DecimalValue(parts[3])) * 256 + DecimalValue(parts[4])

----------------------------------------------------------------------------
\* Nodes and their configuration

Node == {"A", "B", "C"}

\* cfg.ip_address, as typed at start-up
ip_address(n) ==
    CASE n = "A" -> <<"1", "0", ".", "0", ".", "0", ".", "1">>
      [] n = "B" -> <<"1", "0", ".", "0", ".", "0", ".", "2">>
      [] n = "C" -> <<"1", "0", ".", "0", ".", "0", ".", "1", "0">>

\* cfg.get_hostname()
get_hostname(n) ==
    CASE n = "A" -> "hostA" [] n = "B" -> "hostB" [] n = "C" -> "hostC"

Addr == {ip_address(n) : n \in Node}

Unknown == <<"U", "n", "k", "n", "o", "w", "n">>

\* Python's None
None == "None"

----------------------------------------------------------------------------
\* Discovery datagrams

\* the payload after json.loads: an object (a dict), another JSON value, or
\* a text json.loads rejects
JsonObject(fields) == [kind |-> "object", val |-> fields]
JsonArray == [kind |-> "array", val |-> [status |-> "READY"]]
JsonInvalid == [kind |-> "invalid", val |-> [status |-> "READY"]]

\* the datagram _broadcast_loop of node m sends
Beacon(m) ==
    [magic |-> TRUE,
     json |-> JsonObject([hostname |-> get_hostname(m), status |-> "READY"])]

Datagram ==
    {Beacon(m) : m \in Node}
    \cup {[magic |-> TRUE,
           json |-> JsonObject([hostname |-> get_hostname(m), status |-> "BUSY"])]
             : m \in Node}
    \cup {[magic |-> TRUE, json |-> JsonObject([status |-> "READY"])],
          [magic |-> TRUE, json |-> JsonArray],
          [magic |-> TRUE, json |-> JsonInvalid],
          [magic |-> FALSE,
           json |-> JsonObject([hostname |-> "hostB", status |-> "READY"])]}

\* dict.get('hostname')
InfoHostname(info) ==
    IF "hostname" \in DOMAIN info THEN info.hostname ELSE None

----------------------------------------------------------------------------
\* Variants of the handlers with one plausible slip each, used to show that
\* the properties below depend on the code they are about

\* datagram_received without the self-filter
ReachesCallback_nofilter(n, d) ==
    /\ d.magic
    /\ d.json.kind = "object"

\* datagram_received written with `except ValueError`
Caught_value(e) == e \in {"JSONDecodeError", "UnicodeDecodeError"}

\* the loop of handle_input without the try statement around send_message:
\* the first send that raises ends the loop and handle_input
RECURSIVE SendLoop_abort(_, _, _, _)
SendLoop_abort(ps, order, F, acc) ==
    IF order = <<>> THEN acc
    ELSE LET k == Head(order)
             r == IF ps[k].type = "client"
                  THEN IF ~tasks[ps[k].protocol].connected THEN "skipped"
                       ELSE IF k \in F THEN "raised" ELSE "wired"
                  ELSE IF k \in F THEN "logged" ELSE "wired"
             acc2 == [acc EXCEPT
                        !.sent = Append(@, k),
                        !.wired = IF r = "wired" THEN @ \cup {k} ELSE @,
                        !.logged = IF r = "logged" THEN @ \cup {k} ELSE @]
         IN  IF r = "raised" THEN [acc2 EXCEPT !.raised = "Exception"]
             ELSE SendLoop_abort(ps, Tail(order), F, acc2)

\* handle_input taking only /clear and /help for commands
IsCommand_known(msg) ==
    msg \in {<<"/", "c", "l", "e", "a", "r">>, <<"/", "h", "e", "l", "p">>}

\* connect_quic discarding the peer from the in-flight set only after
\* connect_to has succeeded
ConnectFailure_marked(t) ==
    /\ tasks[t].pc = "connecting"
    /\ t \in DOMAIN srv => srv[t].cb = 0
    /\ tasks' = [x \in DOMAIN tasks \ {t} |-> tasks[x]]
    /\ srv' = [x \in DOMAIN srv \ {t} |-> srv[x]]
    /\ UNCHANGED <<peers, connecting_ips, peername, up, rx, heard>>

\* connect_quic without the finally clause
DiscardConnecting_none(t) == connecting_ips

\* connect_quic ending with connecting_ips.clear()
DiscardConnecting_all(t) == [connecting_ips EXCEPT ![t.node] = {}]

\* _handle_heartbeat with `else` for `elif ptype == PacketType.TELEMETRY`
_handle_heartbeat_else(handlers, data, stream_id) ==
    IF data = <<>> THEN [surfaced |-> <<>>, reply |-> <<>>, handler |-> <<>>,
                         raised |-> None]
    ELSE IF data[1] = 1
    THEN [surfaced |-> <<>>, reply |-> <<[stream |-> stream_id, data |-> <<2>>]>>,
          handler |-> <<>>, raised |-> None]
    ELSE IF data[1] = 2
    THEN [surfaced |-> <<>>, reply |-> <<>>, handler |-> <<>>, raised |-> None]
    ELSE IF 0 \in handlers
    THEN [surfaced |-> <<>>, reply |-> <<>>,
          handler |-> <<[lane |-> 0, arg |-> Tail(data)]>>, raised |-> None]
    ELSE [surfaced |-> <<>>, reply |-> <<>>, handler |-> <<>>, raised |-> None]

\* the tie-break written with >=
TieBreakReturns_geq(L, P) ==
    IF ParsesAsIp(L) /\ ParsesAsIp(P)
    THEN IpInt(L) >= IpInt(P)
    ELSE StrGreater(L, P) \/ L = P

\* the tie-break comparing the texts even when both parse
TieBreakReturns_text(L, P) == StrGreater(L, P)

\* the dedup check looking at the registry alone
AlreadyKnown_registry(n, ip) == ip \in DOMAIN peers[n]

\* on_peer_found waiting for the connect attempt it starts to end before it
\* returns to the discovery socket
FirstStepPending_awaited(n) ==
    \E t \in DOMAIN tasks : t.node = n /\ tasks[t].pc \in {"scheduled", "connecting"}

\* an event loop that polls the discovery socket before it runs the first
\* step of a task just created
FirstStepPending_never(n) == FALSE

\* on_connected keeping an entry that is already there
on_connected_keeps(ps, t) ==
    IF t.ip \in DOMAIN ps[t.node] THEN ps
    ELSE [ps EXCEPT ![t.node] =
            [x \in DOMAIN @ \cup {t.ip} |->
                IF x = t.ip
                THEN [type |-> "client", protocol |-> t, name |-> None]
                ELSE @[x]]]

\* DiscoveryService.start with the creation of the socket inside a try
\* statement that reports the failure and goes on, as async_main does for
\* the listener
DiscoveryStart_swallowed(c) ==
    IF c.udp_ok THEN [c EXCEPT !.pc = "tui", !.broadcasting = TRUE]
    ELSE [c EXCEPT !.pc = "tui"]

----------------------------------------------------------------------------
\* DiscoveryProtocol.datagram_received: whether the datagram d, received by
\* node n, is handed to on_peer_found. A datagram without the magic prefix is
\* skipped, json.loads raising or info.get raising (info is no dict) is
\* swallowed by the except clause, a datagram carrying the local hostname is
\* filtered.
ReachesCallback(n, d) ==
    /\ d.magic
    /\ d.json.kind # "invalid"
    /\ d.json.kind = "object"
    /\ InfoHostname(d.json.val) # get_hostname(n)

\* the exception the body of the try statement raises, if it raises: json.loads
\* on a text that is no JSON, info.get on a JSON value that is no object
BodyRaises(d) ==
    IF ~d.magic THEN None
    ELSE IF d.json.kind = "invalid" THEN "JSONDecodeError"
    ELSE IF d.json.kind # "object" THEN "AttributeError"
    ELSE None

\* `except Exception: pass`: every class the body can raise derives from
\* Exception
Caught(e) == e \in {"JSONDecodeError", "UnicodeDecodeError", "AttributeError"}

\* whether datagram_received raises to the event loop
Escapes(d) == BodyRaises(d) # None /\ ~Caught(BodyRaises(d))

\* on_peer_found, the tie-break: TRUE when the handler returns without dialing.
\* The integers are compared when both texts parse, the texts otherwise.
TieBreakReturns(L, P) ==
    IF ParsesAsIp(L) /\ ParsesAsIp(P)
    THEN IpInt(L) > IpInt(P)
    ELSE StrGreater(L, P)

\* the tie-break of every pair of addresses of the segment, computed once
TieBreakTable == [L \in Addr, P \in Addr |-> TieBreakReturns(L, P)]

\* on_peer_found, the dedup check
AlreadyKnown(n, ip) ==
    ip \in DOMAIN peers[n] \/ ip \in connecting_ips[n]

\* A task and its QuicClient are named by the node, the address dialed and a
\* serial number among the tasks of that node to that address.
TaskIds == DOMAIN tasks

FreshId(n, ip) ==
    LET k == CHOOSE j \in 1..(MaxTasks + 1) :
                 /\ [node |-> n, ip |-> ip, k |-> j] \notin TaskIds
                 /\ \A i \in 1..(j - 1) : [node |-> n, ip |-> ip, k |-> i] \in TaskIds
    IN  [node |-> n, ip |-> ip, k |-> k]

\* asyncio.create_task(self.connect_quic(ip, info)): the coroutine object and
\* the QuicClient it will build (connected = False); nothing of the body has
\* run yet
NewTask(info) ==
    [name |-> InfoHostname(info), pc |-> "scheduled", connected |-> FALSE,
     cb |-> 0, term |-> FALSE, disc |-> 0]

\* The event loop runs callbacks in the order they became ready: the first
\* step of a task created by a datagram callback is queued before the loop
\* polls the discovery socket again (one recvfrom per poll).
FirstStepPending(n) ==
    \E t \in TaskIds : t.node = n /\ tasks[t].pc = "scheduled"

Put(f, k, v) == [x \in DOMAIN f \cup {k} |-> IF x = k THEN v ELSE f[x]]

Drop(f, k) == [x \in DOMAIN f \ {k} |-> f[x]]

\* on_peer_found(info, ip) at node n
on_peer_found(n, info, ip) ==
    IF TieBreakTable[ip_address(n), ip] \/ AlreadyKnown(n, ip)
    THEN UNCHANGED tasks
    ELSE /\ Cardinality(TaskIds) < MaxTasks
         /\ tasks' = Put(tasks, FreshId(n, ip), NewTask(info))

\* on_peer_found(info, ip) at node n, cfg.ip_address being the text L
PeerFound(L, n, info, ip) ==
    IF TieBreakReturns(L, ip) \/ AlreadyKnown(n, ip)
    THEN UNCHANGED tasks
    ELSE /\ Cardinality(TaskIds) < MaxTasks
         /\ tasks' = Put(tasks, FreshId(n, ip), NewTask(info))

\* the texts typed as the address of the node and met as the address of a
\* peer: addresses, and texts ipaddress rejects (an octet above 255, three
\* octets, a leading zero, no address at all)
TieTexts ==
    {<<"1", "0", ".", "0", ".", "0", ".", "1">>,
     <<"1", "0", ".", "0", ".", "0", ".", "2">>,
     <<"1", "0", ".", "0", ".", "0", ".", "9">>,
     <<"1", "0", ".", "0", ".", "0", ".", "1", "0">>,
     <<"9", ".", "0", ".", "0", ".", "1">>,
     <<"1", "0", ".", "0", ".", "0", ".", "2", "5", "6">>,
     <<"1", "0", ".", "0", ".", "0">>,
     <<"1", "0", ".", "0", ".", "0", ".", "0", "9">>,
     Unknown}

PendingPeerFound(L, P) ==
    [state |-> "pending", op |-> "on_peer_found", L |-> L, P |-> P]

\* on_peer_found(info, P) is called at node A, whose cfg.ip_address is the
\* text held in call
PeerFoundObserved ==
    /\ call.state = "pending" /\ call.op = "on_peer_found"
    /\ PeerFound(call.L, "A", Beacon("B").json.val, call.P)
    /\ call' = [call EXCEPT !.state = "handled"]
    /\ UNCHANGED <<peers, connecting_ips, srv, peername, up, rx, heard>>

\* datagram_received(data, addr) at node n
datagram_received(n, d, addr) ==
    /\ ~FirstStepPending(n)
    /\ IF ReachesCallback(n, d)
       THEN on_peer_found(n, d.json.val, addr)
       ELSE UNCHANGED tasks
    /\ UNCHANGED <<peers, connecting_ips, srv, peername, up, heard, call>>

\* the beacon of node m arrives on the discovery socket of node n (a node
\* hears its own broadcast too)
BeaconReceived(n, m) ==
    /\ n \in up /\ m \in up
    /\ datagram_received(n, Beacon(m), ip_address(m))
    /\ UNCHANGED rx

\* the path a datagram takes through datagram_received and on_peer_found
Outcome(n, d, addr) ==
    IF Escapes(d) THEN "raised"
    ELSE IF ~ReachesCallback(n, d) THEN "dropped"
    ELSE IF TieBreakTable[ip_address(n), addr] THEN "passive"
    ELSE IF AlreadyKnown(n, addr) THEN "known"
    ELSE "scheduled"

Observation(n, d, addr, st) ==
    [state |-> st, node |-> n, data |-> d, addr |-> addr,
     outcome |-> IF st = "handled" THEN Outcome(n, d, addr) ELSE "none"]

\* BeaconReceived, with the datagram and its path recorded in rx
BeaconObserved(n, m) ==
    /\ n \in up /\ m \in up
    /\ datagram_received(n, Beacon(m), ip_address(m))
    /\ rx' = Observation(n, Beacon(m), ip_address(m), "handled")

\* the datagram held in rx arrives on the discovery socket of rx.node
DatagramObserved ==
    /\ rx.state = "pending"
    /\ datagram_received(rx.node, rx.data, rx.addr)
    /\ rx' = Observation(rx.node, rx.data, rx.addr, "handled")

\* a datagram is malformed when the magic prefix is missing or the payload is
\* not a JSON object
Malformed(d) == ~d.magic \/ d.json.kind # "object"

\* the discovery socket, having handed one datagram to the protocol, receives
\* another
DatagramArrives ==
    /\ rx.state = "handled"
    /\ Len(heard) < MaxHeard
    /\ heard' = Append(heard, [malformed |-> Malformed(rx.data),
                               outcome |-> rx.outcome])
    /\ \E d \in Datagram, addr \in Addr :
          rx' = Observation(rx.node, d, addr, "pending")
    /\ UNCHANGED <<peers, connecting_ips, tasks, srv, peername, up, call>>

\* connect_quic up to its first await: the peer is marked in flight and
\* connect_to starts the QUIC handshake
TaskStart(t) ==
    /\ tasks[t].pc = "scheduled"
    /\ tasks' = [tasks EXCEPT ![t].pc = "connecting"]
    /\ connecting_ips' = [connecting_ips EXCEPT ![t.node] = @ \cup {t.ip}]
    /\ UNCHANGED <<peers, srv, peername, up, rx, heard, call>>

----------------------------------------------------------------------------
\* Outbound role: QuicClient.connect_to inside connect_quic

\* on_connected (the connect_callback of connect_quic): the entry of the peer
\* is written, whatever was there
on_connected(ps, t) ==
    [ps EXCEPT ![t.node] =
        Put(@, t.ip, [type |-> "client", protocol |-> t, name |-> tasks[t].name])]

\* on_handshake_done: acts only while self.connected is False
HandshakeDoneActs(task) == ~task.connected

\* HampterClientProtocol._on_disconnect_callback and the class attribute
\* HampterProtocol._on_disconnect_callback: initialised to None, assigned
\* nowhere
ClientDisconnectCallback == None
ServerDisconnectCallback == None

\* the node, if it is up, that listens on the address a task dials
Listener(t) == {m \in up : ip_address(m) = t.ip}

\* connect() returns with the handshake done: the callbacks are installed,
\* the state is synchronised by hand (on_handshake_done), the chat stream is
\* touched and the coroutine sleeps in the keep-alive loop
ConnectSuccess(t) ==
    /\ tasks[t].pc = "connecting"
    /\ t \in DOMAIN srv
    /\ IF HandshakeDoneActs(tasks[t])
       THEN /\ tasks' = [tasks EXCEPT ![t].pc = "heartbeat",
                                      ![t].connected = TRUE,
                                      ![t].cb = @ + 1]
            /\ peers' = on_connected(peers, t)
       ELSE /\ tasks' = [tasks EXCEPT ![t].pc = "heartbeat"]
            /\ UNCHANGED peers
    /\ UNCHANGED <<connecting_ips, srv, peername, up, rx, heard>>

ConnectSucceeds(t) == ConnectSuccess(t) /\ UNCHANGED call

\* connect_quic's finally
DiscardConnecting(t) ==
    [connecting_ips EXCEPT ![t.node] = @ \ {t.ip}]

\* connect() raises (timeout, refused, handshake failure): the except clauses
\* of connect_to log it, its finally resets the client, connect_quic's finally
\* follows; the client was never stored and is dropped with the task, and so
\* is the half-open protocol instance of the listener. Once the server side
\* has seen the handshake complete the client side has completed it too and
\* connect() cannot fail any more.
ConnectFailure(t) ==
    /\ tasks[t].pc = "connecting"
    /\ t \in DOMAIN srv => srv[t].cb = 0
    /\ tasks' = Drop(tasks, t)
    /\ srv' = Drop(srv, t)
    /\ connecting_ips' = DiscardConnecting(t)
    /\ UNCHANGED <<peers, peername, up, rx, heard>>

ConnectFails(t) == ConnectFailure(t) /\ UNCHANGED call

\* ConnectFails, with the task that failed recorded in call
ConnectFailsObserved(t) ==
    /\ ConnectFailure(t)
    /\ call' = [state |-> "handled", op |-> "connect_to", task |-> t]

\* a HandshakeCompleted event delivered to the client protocol after the
\* callback was installed: on_handshake_done runs again
ClientHandshakeCompleted(t) ==
    /\ tasks[t].pc \in {"heartbeat", "closing"}
    /\ IF HandshakeDoneActs(tasks[t])
       THEN /\ tasks' = [tasks EXCEPT ![t].connected = TRUE, ![t].cb = @ + 1]
            /\ peers' = on_connected(peers, t)
       ELSE UNCHANGED <<tasks, peers>>
    /\ UNCHANGED <<connecting_ips, srv, peername, up, rx, heard, call>>

\* a ConnectionTerminated event delivered to the client protocol: the
\* disconnect callback is called if there is one
ClientConnectionTerminated(t) ==
    /\ tasks[t].pc \in {"heartbeat", "closing"}
    /\ ~tasks[t].term
    /\ tasks' = [tasks EXCEPT ![t].term = TRUE,
                              ![t].disc = IF ClientDisconnectCallback # None
                                          THEN @ + 1 ELSE @]
    /\ UNCHANGED <<peers, connecting_ips, srv, peername, up, rx, heard, call>>

\* one round of the keep-alive loop: the PING is sent, or sending raises and
\* the loop is left, which closes the connection (async with) and waits for
\* it to be closed
KeepAlive(t, fails) ==
    /\ tasks[t].pc = "heartbeat"
    /\ IF fails
       THEN /\ tasks[t].connected
            /\ tasks' = [tasks EXCEPT ![t].pc = "closing"]
       ELSE UNCHANGED tasks
    /\ UNCHANGED <<peers, connecting_ips, srv, peername, up, rx, heard>>

HeartbeatTick(t) ==
    /\ \E fails \in BOOLEAN : KeepAlive(t, fails)
    /\ UNCHANGED call

\* the connection is closed: connect_to returns through its finally
\* (connected = False) and connect_quic through its own
TaskFinish(t) ==
    /\ tasks[t].pc = "closing"
    /\ tasks' = [tasks EXCEPT ![t].pc = "done", ![t].connected = FALSE]
    /\ connecting_ips' = DiscardConnecting(t)
    /\ UNCHANGED <<peers, srv, peername, up, rx, heard, call>>

----------------------------------------------------------------------------
\* Inbound role: HampterProtocol, created by the listener per connection

\* what the three lookups of quic_event_received yield for the connection of
\* task t: the address of the dialing node, or nothing
NoPeername == <<>>
PeerLookup(t) == IF peername THEN ip_address(t.node) ELSE NoPeername

\* the first element of `peer or ("Unknown", 0)`, then on_server_connect's
\* `peer[0] if (peer and len(peer) > 0) else "Unknown"`
PeerKey(pn) == IF pn = NoPeername THEN Unknown ELSE pn

\* the listener accepts the connection a task is opening and creates its
\* HampterProtocol
ServerAccept(t) ==
    /\ tasks[t].pc = "connecting"
    /\ t \notin DOMAIN srv
    /\ \E m \in Listener(t) :
          srv' = Put(srv, t, [node |-> m, cb |-> 0, term |-> FALSE, disc |-> 0])
    /\ UNCHANGED <<peers, connecting_ips, tasks, peername, up, rx, heard, call>>

\* on_server_connect writing the entry whether or not the key is known
on_server_connect_overwrites(ps, m, ip, t) ==
    [ps EXCEPT ![m] =
        Put(@, ip, [type |-> "server", protocol |-> t, name |-> "Unknown"])]

\* on_server_connect(peer, protocol)
on_server_connect(ps, m, ip, t) ==
    IF ip \notin DOMAIN ps[m]
    THEN [ps EXCEPT ![m] =
            Put(@, ip, [type |-> "server", protocol |-> t, name |-> "Unknown"])]
    ELSE ps

\* HampterProtocol.quic_event_received, HandshakeCompleted
ServerHandshake(t) ==
    /\ t \in DOMAIN srv
    /\ ~srv[t].term
    /\ srv[t].cb < MaxSignals
    /\ srv' = [srv EXCEPT ![t].cb = @ + 1]
    /\ peers' = on_server_connect(peers, srv[t].node, PeerKey(PeerLookup(t)), t)
    /\ UNCHANGED <<connecting_ips, tasks, peername, up, rx, heard>>

ServerHandshakeCompleted(t) == ServerHandshake(t) /\ UNCHANGED call

\* HampterProtocol.quic_event_received, ConnectionTerminated
ServerConnectionTerminated(t) ==
    /\ t \in DOMAIN srv
    /\ ~srv[t].term
    /\ srv' = [srv EXCEPT ![t].term = TRUE,
                          ![t].disc = IF ServerDisconnectCallback # None
                                      THEN @ + 1 ELSE @]
    /\ UNCHANGED <<peers, connecting_ips, tasks, peername, up, rx, heard, call>>

----------------------------------------------------------------------------
\* Certificates: what each end of the handshake presents and what it checks

\* the certificate in cfg.CERT_PATH of a node: signed by the shared CA, or not
Certificate == {"ca", "other"}

\* QuicClient.__init__: the configuration of the dialing side is given no
\* certificate chain (cert_path is not used), so it presents none
ClientPresents(cert) == "none"

\* build_quic_config: load_cert_chain(cert_path, key_path)
ServerPresents(cert) == cert

\* QuicClient.__init__: self.config.verify_mode = ssl.CERT_NONE
ClientVerifyMode == "CERT_NONE"

\* the TLS layer of the dialing side checks the chain of the listener against
\* its CA certificates unless verify_mode is CERT_NONE
ClientAcceptsCertificate(presented) ==
    ClientVerifyMode = "CERT_NONE" \/ presented = "ca"

\* build_quic_config loads no CA certificate and sets no verify mode: the
\* listener does not ask the dialing side for a certificate
ServerRequestsCertificate == FALSE

ServerAcceptsCertificate(presented) ==
    ~ServerRequestsCertificate \/ presented = "ca"

\* the certificates the nodes were given
PendingAuth(cert) == [state |-> "given", op |-> "tls", cert |-> cert]

\* ConnectSucceeds, the TLS layer of the dialing side having accepted what
\* the listener presented
AuthConnectSucceeds(t) ==
    /\ call.op = "tls"
    /\ \A m \in Listener(t) :
          ClientAcceptsCertificate(ServerPresents(call.cert[m]))
    /\ ConnectSucceeds(t)

\* ServerHandshakeCompleted, the TLS layer of the listener having accepted
\* what the dialing side presented
AuthServerHandshakeCompleted(t) ==
    /\ call.op = "tls"
    /\ ServerAcceptsCertificate(ClientPresents(call.cert[t.node]))
    /\ ServerHandshakeCompleted(t)

----------------------------------------------------------------------------
\* Lanes, packet types and the stream events of the three protocol classes.
\* Bytes are numbers 0..255, a bytes object is a sequence of them, a str is
\* the sequence of its code points.

\* class Lane
HEARTBEAT == 0
CHATTER == 1
FLOW == 2
HAUL == 3
Lane == {HEARTBEAT, CHATTER, FLOW, HAUL}

\* class PacketType
PING == 1
PONG == 2
TELEMETRY == 3
MSG_TEXT == 16
MSG_ACK == 17
AV_DATA == 32
FILE_START == 48
FILE_DATA == 49
FILE_END == 50
PacketType ==
    {PING, PONG, TELEMETRY, MSG_TEXT, MSG_ACK, AV_DATA, FILE_START, FILE_DATA,
     FILE_END}

get_lane_from_stream_id(stream_id) == stream_id % 4

\* QuicClient.chat_stream_id, QuicClient.heartbeat_stream_id
chat_stream_id == 4
heartbeat_stream_id == 0

\* b'PING', the bytes the keep-alive loop of QuicClient writes
ClientPing == <<80, 73, 78, 71>>

\* bytes.decode('utf-8'), for sequences of one and two bytes per code point
RECURSIVE Utf8Decode(_)
Utf8Decode(data) ==
    IF data = <<>> THEN [ok |-> TRUE, text |-> <<>>]
    ELSE IF data[1] < 128
    THEN LET r == Utf8Decode(Tail(data))
         IN  [ok |-> r.ok, text |-> <<data[1]>> \o r.text]
    ELSE IF /\ data[1] >= 194 /\ data[1] <= 223
            /\ Len(data) >= 2 /\ data[2] >= 128 /\ data[2] <= 191
    THEN LET r == Utf8Decode(SubSeq(data, 3, Len(data)))
         IN  [ok |-> r.ok,
              text |-> <<(data[1] - 192) * 64 + (data[2] - 128)>> \o r.text]
    ELSE [ok |-> FALSE, text |-> <<>>]

\* str.encode('utf-8'), for code points below 2048
RECURSIVE Utf8Encode(_)
Utf8Encode(text) ==
    IF text = <<>> THEN <<>>
    ELSE IF text[1] < 128 THEN <<text[1]>> \o Utf8Encode(Tail(text))
    ELSE <<192 + (text[1] \div 64), 128 + (text[1] % 64)>>
             \o Utf8Encode(Tail(text))

\* what a stream event does: the texts handed to the message callback, the
\* data written back (stream and bytes), the lane handlers called (lane and
\* argument), the exception that leaves quic_event_received
NoStreamEffect ==
    [surfaced |-> <<>>, reply |-> <<>>, handler |-> <<>>, raised |-> None]

\* HampterClientProtocol.quic_event_received, StreamDataReceived: the data of
\* any stream is decoded and handed to the message callback
ClientOnStreamData(stream_id, data) ==
    LET r == Utf8Decode(data)
    IN  IF r.ok THEN [NoStreamEffect EXCEPT !.surfaced = <<r.text>>]
        ELSE NoStreamEffect

\* HampterProtocol.quic_event_received, StreamDataReceived
ServerOnStreamData(stream_id, data) ==
    LET r == Utf8Decode(data)
    IN  IF ~r.ok THEN NoStreamEffect
        ELSE IF stream_id = 0 THEN NoStreamEffect
        ELSE IF stream_id = 4 THEN [NoStreamEffect EXCEPT !.surfaced = <<r.text>>]
        ELSE NoStreamEffect

\* bytes([type]) + payload, and its inverse data[0], data[1:]
EncodeFrame(type, payload) == <<type>> \o payload
DecodeFrame(data) == [type |-> data[1], payload |-> Tail(data)]

\* HampterNode._handle_heartbeat, with the lanes for which a handler is
\* registered
_handle_heartbeat(handlers, data, stream_id) ==
    IF data = <<>> THEN NoStreamEffect
    ELSE LET f == DecodeFrame(data)
         IN  IF f.type = PING
             THEN [NoStreamEffect EXCEPT
                     !.reply = <<[stream |-> stream_id, data |-> <<PONG>>]>>]
             ELSE IF f.type = PONG THEN NoStreamEffect
             ELSE IF f.type = TELEMETRY /\ HEARTBEAT \in handlers
             THEN [NoStreamEffect EXCEPT
                     !.handler = <<[lane |-> HEARTBEAT, arg |-> f.payload]>>]
             ELSE NoStreamEffect

\* HampterNode._on_stream_data
EngineOnStreamData(handlers, stream_id, data) ==
    LET lane == get_lane_from_stream_id(stream_id)
    IN  IF lane = HEARTBEAT THEN _handle_heartbeat(handlers, data, stream_id)
        ELSE IF lane \in handlers
        THEN [NoStreamEffect EXCEPT !.handler = <<[lane |-> lane, arg |-> data]>>]
        ELSE NoStreamEffect

\* the stream events delivered to a protocol
StreamIds == {0, 1, 2, 3, 4, 5, 8}
EventData ==
    {<<>>, ClientPing, <<80, 79, 78, 71>>, <<PING>>, <<PONG>>, <<TELEMETRY, 7>>,
     <<MSG_TEXT, 104>>, <<AV_DATA, 7>>, <<104, 105>>, <<195, 169>>, <<255>>}

PendingEvent(role, stream_id, data, handlers) ==
    [state |-> "pending", op |-> "stream_data", role |-> role,
     stream_id |-> stream_id, data |-> data, handlers |-> handlers,
     connected |-> TRUE, effect |-> NoStreamEffect]

\* the StreamDataReceived event held in call is delivered to the protocol,
\* which has completed its handshake (connected); none of the three handlers
\* assigns connected or closes the connection
StreamDataReceived(role) ==
    /\ call.state = "pending" /\ call.op = "stream_data" /\ call.role = role
    /\ call' = [call EXCEPT
                  !.state = "handled",
                  !.effect =
                     CASE role = "client" ->
                            ClientOnStreamData(call.stream_id, call.data)
                       [] role = "server" ->
                            ServerOnStreamData(call.stream_id, call.data)
                       [] role = "engine" ->
                            EngineOnStreamData(call.handlers, call.stream_id,
                                               call.data)]
    /\ UNCHANGED <<peers, connecting_ips, tasks, srv, peername, up, rx, heard>>

\* QuicConnection.get_next_available_stream_id(is_unidirectional=False): the
\* lowest bidirectional stream of this endpoint not yet created; the streams
\* of the client are 0, 4, 8, ..., those of the server 1, 5, 9, ...
get_next_available_stream_id(is_client, streams) ==
    LET base == IF is_client THEN 0 ELSE 1
    IN  CHOOSE id \in {base + 4 * i : i \in 0..Cardinality(streams)} :
            /\ id \notin streams
            /\ \A i \in 0..Cardinality(streams) :
                  base + 4 * i < id => base + 4 * i \in streams

\* _get_stream_for_lane asking the transport for a stream at every call
_get_stream_for_lane_fresh(node, lane) ==
    get_next_available_stream_id(node.is_client, node.streams)

\* HampterNode._get_stream_for_lane: the stream of the lane, created at its
\* first use
_get_stream_for_lane(node, lane) ==
    IF lane \in DOMAIN node.stream_ids THEN node.stream_ids[lane]
    ELSE get_next_available_stream_id(node.is_client, node.streams)

\* what HampterNode.send_text, send_telemetry and send_video_data write, and
\* on which lane
SendLane(op) ==
    CASE op = "send_text" -> CHATTER
      [] op = "send_telemetry" -> HEARTBEAT
      [] op = "send_video_data" -> FLOW

SendPayload(op, arg) ==
    CASE op = "send_text" -> EncodeFrame(MSG_TEXT, Utf8Encode(arg))
      [] op = "send_telemetry" -> EncodeFrame(TELEMETRY, arg)
      [] op = "send_video_data" -> arg

\* the payloads handed to send_telemetry and send_video_data (0, 1 and
\* several bytes) and the texts handed to send_text
Payloads == {<<>>, <<7>>, <<7, 0, 200>>}
Texts == {<<104, 105>>, <<233>>}
SendArgs(op) == IF op = "send_text" THEN Texts ELSE Payloads

NoSend == [op |-> "none", arg |-> <<>>, sent |-> FALSE, stream |-> 0,
           payload |-> <<>>]

\* a HampterNode after construction, of the dialing side or created by the
\* listener, and the lanes the node at the other end has handlers for
NewEngine(is_client, connected, handlers) ==
    [state |-> "idle", op |-> "engine", is_client |-> is_client,
     connected |-> connected, stream_ids |-> <<>>, streams |-> {},
     handlers |-> handlers, sends |-> 0, last |-> NoSend,
     effect |-> NoStreamEffect]

\* HampterNode.send_text / send_telemetry / send_video_data: nothing unless
\* connected, else the stream of the lane is looked up or created and the
\* payload written to it
EngineSend(op, arg) ==
    /\ call.op = "engine" /\ call.state \in {"idle", "handled"}
    /\ call.sends < MaxSends
    /\ IF ~call.connected
       THEN call' = [call EXCEPT
                       !.state = "handled", !.sends = @ + 1,
                       !.last = [NoSend EXCEPT !.op = op, !.arg = arg],
                       !.effect = NoStreamEffect]
       ELSE LET lane == SendLane(op)
                stream_id == _get_stream_for_lane(call, lane)
            IN  call' = [call EXCEPT
                           !.state = "sent", !.sends = @ + 1,
                           !.stream_ids = Put(@, lane, stream_id),
                           !.streams = @ \cup {stream_id},
                           !.last = [op |-> op, arg |-> arg, sent |-> TRUE,
                                     stream |-> stream_id,
                                     payload |-> SendPayload(op, arg)],
                           !.effect = NoStreamEffect]
    /\ UNCHANGED <<peers, connecting_ips, tasks, srv, peername, up, rx, heard>>

\* the data written arrives, in one piece, at the HampterNode of the other
\* end
EngineDeliver ==
    /\ call.op = "engine" /\ call.state = "sent"
    /\ call' = [call EXCEPT
                  !.state = "handled",
                  !.effect = EngineOnStreamData(call.handlers, call.last.stream,
                                                call.last.payload)]
    /\ UNCHANGED <<peers, connecting_ips, tasks, srv, peername, up, rx, heard>>

----------------------------------------------------------------------------
\* User input: HamperLinkApp.handle_input and the send_message of both roles

\* str.strip() (the texts of the model hold no whitespace but the space)
RECURSIVE strip(_)
strip(s) ==
    IF s = <<>> THEN s
    ELSE IF Head(s) = " " THEN strip(Tail(s))
    ELSE IF s[Len(s)] = " " THEN strip(SubSeq(s, 1, Len(s) - 1))
    ELSE s

\* str.lower()
LowerChar(c) ==
    CASE c = "C" -> "c" [] c = "E" -> "e" [] c = "H" -> "h" [] c = "L" -> "l"
      [] c = "P" -> "p" [] OTHER -> c

lower(s) == [i \in 1..Len(s) |-> LowerChar(s[i])]

\* msg.startswith("/")
IsCommand(msg) == msg # <<>> /\ msg[1] = "/"

\* the attributes of the Dashboard class: handle_input calls clear_logs, which
\* the class does not define
DashboardMethods ==
    {"update_peer", "update_info", "add_log", "add_debug", "update_input",
     "generate_layout", "get_live"}

\* the branch `if msg.startswith("/")` of handle_input: the exception it
\* raises, if any, and the line it appends to the dashboard log
CommandBranch(msg) ==
    LET cmd == lower(Tail(msg))
    IN  IF cmd = <<"c", "l", "e", "a", "r">>
        THEN IF "clear_logs" \in DashboardMethods
             THEN [raised |-> None, log |-> <<>>]
             ELSE [raised |-> "AttributeError", log |-> <<>>]
        ELSE IF cmd = <<"h", "e", "l", "p">>
        THEN [raised |-> None, log |-> <<"Available commands: /clear, /help">>]
        ELSE [raised |-> None, log |-> <<"Unknown command">>]

\* whether the link of a registry entry is Established
Established(e) ==
    IF e.type = "client" THEN tasks[e.protocol].connected
    ELSE srv[e.protocol].cb > 0 /\ ~srv[e.protocol].term

\* QuicClient.send_message: nothing unless connected; F holds the registry
\* keys whose transport raises when asked to send
ClientSend(e, k, F) ==
    IF ~tasks[e.protocol].connected THEN "skipped"
    ELSE IF k \in F THEN "raised"
    ELSE "wired"

\* HampterProtocol.send_message: the stream is written whatever the state of
\* the connection; what the transport raises is logged there
ServerSend(e, k, F) ==
    IF k \in F THEN "logged" ELSE "wired"

\* target.send_message(msg)
send_message(e, k, F) ==
    IF e.type = "client" THEN ClientSend(e, k, F) ELSE ServerSend(e, k, F)

NoEffect ==
    [raised |-> None, log |-> <<>>, sent |-> <<>>, wired |-> {}, debug |-> {},
     logged |-> {}]

\* the loop of handle_input over list(self.peers.items()), in the order the
\* entries were inserted: send_message is called inside try/except, a failure
\* is reported on the debug feed and the loop goes on
RECURSIVE SendLoop(_, _, _, _)
SendLoop(ps, order, F, acc) ==
    IF order = <<>> THEN acc
    ELSE LET k == Head(order)
             r == send_message(ps[k], k, F)
         IN  SendLoop(ps, Tail(order), F,
                 [acc EXCEPT !.sent = Append(@, k),
                             !.wired = IF r = "wired" THEN @ \cup {k} ELSE @,
                             !.logged = IF r = "logged" THEN @ \cup {k} ELSE @,
                             !.debug = IF r = "raised" THEN @ \cup {k} ELSE @])

\* what handle_input(raw) does at a node whose registry is ps
HandleInputEffect(ps, raw, order, F) ==
    LET msg == strip(raw)
    IN  IF msg = <<>> THEN NoEffect
        ELSE IF IsCommand(msg)
        THEN [NoEffect EXCEPT !.raised = CommandBranch(msg).raised,
                              !.log = CommandBranch(msg).log]
        ELSE IF DOMAIN ps = {}
        THEN [NoEffect EXCEPT !.log = <<"ME", "No active links to send to.">>]
        ELSE SendLoop(ps, order, F, [NoEffect EXCEPT !.log = <<"ME">>])

\* the orders in which a dict with the keys K can have been filled
Orders(K) ==
    {o \in [1..Cardinality(K) -> K] : \A i, j \in DOMAIN o : o[i] = o[j] => i = j}

\* the texts typed at the console
UserText ==
    {<<>>, <<" ">>, <<"h", "i">>, <<" ", "h", "i", " ">>, <<"h", "/">>,
     <<"/", "c", "l", "e", "a", "r">>, <<"/", "h", "e", "l", "p">>,
     <<"/", "H", "E", "L", "P">>, <<"/", "x">>,
     <<" ", "/", "c", "l", "e", "a", "r">>, <<" ", "/", "x">>}

PendingInput(n, raw) ==
    [state |-> "pending", op |-> "handle_input", node |-> n, text |-> raw,
     fails |-> {}, effect |-> NoEffect]

\* handle_input(msg) at the node and with the text held in call
HandleInput ==
    /\ call.state = "pending" /\ call.op = "handle_input"
    /\ \E order \in Orders(DOMAIN peers[call.node]),
          F \in SUBSET DOMAIN peers[call.node] :
          call' = [call EXCEPT
                     !.state = "handled",
                     !.fails = F,
                     !.effect = HandleInputEffect(peers[call.node], call.text,
                                                  order, F)]
    /\ UNCHANGED <<peers, connecting_ips, tasks, srv, peername, up, rx, heard>>

----------------------------------------------------------------------------
\* The streams of a link: which of them the dialing side has created, which
\* carry data that is on its way, and which the connection of the listener
\* has seen data on

StreamsOf(f, t) == IF t \in DOMAIN f THEN f[t] ELSE {}

\* whether an empty write without FIN makes the transport send a STREAM frame
\* is left open (touch_sends)
NoStreams(touch_sends) ==
    [state |-> "open", op |-> "chat", touch_sends |-> touch_sends,
     opened |-> <<>>, wire |-> <<>>, known |-> <<>>,
     last |-> [task |-> None, outcome |-> "none"]]

\* protocol._quic.send_stream_data(stream_id, data) on the dialing side: the
\* stream is created at its first use; the data, if the transport sends any,
\* is on its way
ClientWrites(c, t, stream_id, sends) ==
    [c EXCEPT !.opened = Put(@, t, StreamsOf(@, t) \cup {stream_id}),
              !.wire = IF sends THEN Put(@, t, StreamsOf(@, t) \cup {stream_id})
                       ELSE @]

\* ConnectSucceeds, with the streams recorded: connect_to touches the chat
\* stream with an empty write and writes nothing to the heartbeat stream
\* before the first round of the keep-alive loop
ConnectSucceedsObserved(t) ==
    /\ call.op = "chat"
    /\ ConnectSuccess(t)
    /\ call' = ClientWrites(call, t, chat_stream_id, call.touch_sends)

\* HeartbeatTick, with the streams recorded: a round in which the node is
\* connected and the write succeeds puts b'PING' on the heartbeat stream
HeartbeatObserved(t) ==
    /\ call.op = "chat"
    /\ \E fails \in BOOLEAN :
          /\ KeepAlive(t, fails)
          /\ call' = IF tasks[t].connected /\ ~fails
                     THEN ClientWrites(call, t, heartbeat_stream_id, TRUE)
                     ELSE call

\* QuicClient.send_message, called by handle_input for the registry entry
\* that holds the client of task t
ClientSendMessage(t) ==
    /\ call.op = "chat"
    /\ t.ip \in DOMAIN peers[t.node]
    /\ peers[t.node][t.ip].type = "client"
    /\ peers[t.node][t.ip].protocol = t
    /\ tasks[t].connected
    /\ call' = ClientWrites(call, t, chat_stream_id, TRUE)
    /\ UNCHANGED <<peers, connecting_ips, tasks, srv, peername, up, rx, heard>>

\* data of a stream reaches the connection of the listener, which from then
\* on knows the stream
StreamArrives(t, stream_id) ==
    /\ call.op = "chat"
    /\ stream_id \in StreamsOf(call.wire, t)
    /\ t \in DOMAIN srv /\ ~srv[t].term
    /\ call' = [call EXCEPT
                  !.wire = Put(@, t, StreamsOf(@, t) \ {stream_id}),
                  !.known = Put(@, t, StreamsOf(@, t) \cup {stream_id})]
    /\ UNCHANGED <<peers, connecting_ips, tasks, srv, peername, up, rx, heard>>

\* QuicConnection.send_stream_data on the listening side for a stream the
\* dialing side initiates: ValueError ("Cannot send data on unknown
\* peer-initiated stream") unless the connection has seen the stream
ServerWrite(known, stream_id) ==
    IF stream_id \in known THEN "wired" ELSE "ValueError"

\* HampterProtocol.send_message, called by handle_input for a registry entry
\* that holds the protocol instance of the connection of task t: stream 4 is
\* written; what the transport raises is logged and the text is lost
ServerSendMessage(t) ==
    /\ call.op = "chat"
    /\ t \in DOMAIN srv
    /\ \E k \in DOMAIN peers[srv[t].node] :
          /\ peers[srv[t].node][k].type = "server"
          /\ peers[srv[t].node][k].protocol = t
    /\ call' = [call EXCEPT
                  !.last = [task |-> t,
                            outcome |-> ServerWrite(StreamsOf(call.known, t),
                                                    chat_stream_id)]]
    /\ UNCHANGED <<peers, connecting_ips, tasks, srv, peername, up, rx, heard>>

----------------------------------------------------------------------------
\* The mesh: every node hears the beacons of every node

NoRx == [state |-> "off", node |-> "none", data |-> Beacon("A"),
         addr |-> Unknown, outcome |-> "none"]

NoCall == [state |-> "off"]

\* nothing but the mesh is observed
Unobserved == heard = <<>> /\ call = NoCall

InitNode ==
    /\ peers = [n \in Node |-> <<>>]
    /\ connecting_ips = [n \in Node |-> {}]
    /\ tasks = <<>>
    /\ srv = <<>>
    /\ peername \in BOOLEAN

Init ==
    /\ InitNode
    /\ up = Node
    /\ rx = NoRx
    /\ Unobserved

\* the steps of a link other than the failure of its connect attempt
LinkAlive ==
    \/ \E t \in TaskIds : TaskStart(t)
    \/ \E t \in TaskIds : ServerAccept(t)
    \/ \E t \in TaskIds : ConnectSucceeds(t)
    \/ \E t \in TaskIds : ClientHandshakeCompleted(t)
    \/ \E t \in TaskIds : ClientConnectionTerminated(t)
    \/ \E t \in TaskIds : HeartbeatTick(t)
    \/ \E t \in TaskIds : TaskFinish(t)
    \/ \E t \in TaskIds : ServerHandshakeCompleted(t)
    \/ \E t \in TaskIds : ServerConnectionTerminated(t)

LinkStep ==
    \/ LinkAlive
    \/ \E t \in TaskIds : ConnectFails(t)

Next ==
    \/ \E n \in Node, m \in Node : BeaconReceived(n, m)
    \/ LinkStep

Spec == Init /\ [][Next]_vars

----------------------------------------------------------------------------
\* Three nodes, 10.0.0.1 in range of the two others, which are out of range
\* of each other: 10.0.0.1 is the one that dials, and it dials both

InRange(n, m) == {n, m} # {"B", "C"}

NextHub ==
    \/ \E n \in Node, m \in Node : InRange(n, m) /\ BeaconReceived(n, m)
    \/ LinkStep

SpecHub == Init /\ [][NextHub]_vars

----------------------------------------------------------------------------
\* Two nodes in range of each other, every beacon reception observed

InitTwo ==
    /\ InitNode
    /\ up \in {S \in SUBSET Node : Cardinality(S) = 2}
    /\ rx = NoRx
    /\ Unobserved

NextTwo ==
    \/ \E n \in Node, m \in Node : BeaconObserved(n, m)
    \/ LinkStep

SpecTwo == InitTwo /\ [][NextTwo]_vars

\* leaving `async with connect(...)` closes the connection and waits for it
\* to be closed, which the closing timer of the transport bounds; the event
\* loop then resumes the coroutine
SpecTwoFair == SpecTwo /\ WF_vars(\E t \in TaskIds : TaskFinish(t))

----------------------------------------------------------------------------
\* Two nodes in range of each other, every beacon reception and every failed
\* connect attempt observed

NextDial ==
    \/ \E n \in Node, m \in Node : BeaconObserved(n, m)
    \/ LinkAlive
    \/ \E t \in TaskIds : ConnectFailsObserved(t)

SpecDial == InitTwo /\ [][NextDial]_vars

----------------------------------------------------------------------------
\* One datagram, of any content and from any address, handed to a node that
\* has just started

InitDisc ==
    /\ InitNode
    /\ up = Node
    /\ rx \in {Observation(n, d, addr, "pending") :
                  n \in Node, d \in Datagram, addr \in Addr}
    /\ Unobserved

NextDisc == DatagramObserved

SpecDisc == InitDisc /\ [][NextDisc]_vars

----------------------------------------------------------------------------
\* The discovery socket of one node receiving datagram after datagram, of any
\* content and from any address, while the connect tasks they start take
\* their first step

NextListen ==
    \/ DatagramObserved
    \/ DatagramArrives
    \/ \E t \in TaskIds : TaskStart(t)

SpecListen == InitDisc /\ [][NextListen]_vars

----------------------------------------------------------------------------
\* One stream event, on any stream and with any data, delivered to a protocol
\* of one of the three classes

InitStream ==
    /\ InitNode
    /\ up = Node
    /\ rx = NoRx
    /\ heard = <<>>
    /\ call \in {PendingEvent(role, id, data, {}) :
                    role \in {"client", "server"}, id \in StreamIds,
                    data \in EventData}
               \cup {PendingEvent("engine", id, data, handlers) :
                        id \in StreamIds, data \in EventData,
                        handlers \in {{}, Lane}}

NextStream ==
    \/ StreamDataReceived("client")
    \/ StreamDataReceived("server")
    \/ StreamDataReceived("engine")

SpecStream == InitStream /\ [][NextStream]_vars

----------------------------------------------------------------------------
\* Two HampterNode instances joined by one connection: one of them sends,
\* the other receives

InitEngine ==
    /\ InitNode
    /\ up = Node
    /\ rx = NoRx
    /\ heard = <<>>
    /\ call \in {NewEngine(is_client, connected, handlers) :
                    is_client \in BOOLEAN, connected \in BOOLEAN,
                    handlers \in {{}, Lane}}

NextEngine ==
    \/ \E arg \in SendArgs("send_text") : EngineSend("send_text", arg)
    \/ \E arg \in SendArgs("send_telemetry") : EngineSend("send_telemetry", arg)
    \/ \E arg \in SendArgs("send_video_data") : EngineSend("send_video_data", arg)
    \/ EngineDeliver

SpecEngine == InitEngine /\ [][NextEngine]_vars

----------------------------------------------------------------------------
\* A text typed at the console of a node of a mesh that has settled: of the
\* links the tie-break allows any number has been opened, and each of them is
\* Established or has been closed again

\* the connect tasks the tie-break allows, one for each pair of nodes
LinkIds ==
    {[node |-> n, ip |-> ip_address(m), k |-> 1] :
        <<n, m>> \in {p \in Node \X Node :
                        /\ p[1] # p[2]
                        /\ ~TieBreakTable[ip_address(p[1]), ip_address(p[2])]}}

NodeAt(ip) == CHOOSE m \in Node : ip_address(m) = ip

\* the task of a link that is Established (the coroutine is in the keep-alive
\* loop) or was closed (termination was reported and connect_to has ended)
SettledTask(t, phase) ==
    [NewTask(Beacon(NodeAt(t.ip)).json.val) EXCEPT
        !.pc = IF phase = "up" THEN "heartbeat" ELSE "done",
        !.connected = (phase = "up"),
        !.cb = 1,
        !.term = (phase # "up")]

\* the protocol instance of the listener for that link
SettledSrv(t, phase) ==
    [node |-> NodeAt(t.ip), cb |-> 1, term |-> (phase # "up"), disc |-> 0]

\* the registries once both sides of every link of the sequence have called
\* their connected callback, link after link
RECURSIVE Admitted(_, _)
Admitted(ps, order) ==
    IF order = <<>> THEN ps
    ELSE LET t == Head(order)
         IN  Admitted(on_server_connect(on_connected(ps, t), NodeAt(t.ip),
                                        PeerKey(PeerLookup(t)), t),
                      Tail(order))

InitMesh ==
    /\ peername \in BOOLEAN
    /\ \E T \in SUBSET LinkIds : \E phase \in [T -> {"up", "closed"}] :
          /\ tasks = [t \in T |-> SettledTask(t, phase[t])]
          /\ srv = [t \in T |-> SettledSrv(t, phase[t])]
          /\ connecting_ips =
                [n \in Node |-> {t.ip : t \in {u \in T : u.node = n
                                                         /\ phase[u] = "up"}}]
          /\ \E order \in Orders(T) :
                peers = Admitted([n \in Node |-> <<>>], order)
    /\ up = Node
    /\ rx = NoRx
    /\ heard = <<>>

InitInput ==
    /\ InitMesh
    /\ call \in {PendingInput(n, raw) : n \in Node, raw \in UserText}

NextInput == HandleInput

SpecInput == InitInput /\ [][NextInput]_vars

----------------------------------------------------------------------------
\* Two nodes in range of each other, either of which may be stopped

\* start(): run_until_complete returns when tui_loop ends (Ctrl-C) or
\* async_main raises; the finally clause sets running to False and prints a
\* line. No task is cancelled, no connection is closed,
\* DiscoveryService.broadcasting stays True; the event loop is not run again,
\* so what it had pending stays as it is.
Stop(n) ==
    /\ n \in up
    /\ up' = up \ {n}
    /\ UNCHANGED <<peers, connecting_ips, tasks, srv, peername, rx, heard, call>>

\* the event loop of a node runs its tasks and callbacks only while
\* run_until_complete has not returned
Runs(n) == n \in up

NextStop ==
    \/ \E n \in Node : Stop(n)
    \/ \E n \in Node, m \in Node : BeaconObserved(n, m)
    \/ \E t \in TaskIds : Runs(t.node) /\ TaskStart(t)
    \/ \E t \in TaskIds : ServerAccept(t)
    \/ \E t \in TaskIds : Runs(t.node) /\ ConnectSucceeds(t)
    \/ \E t \in TaskIds : Runs(t.node) /\ ConnectFails(t)
    \/ \E t \in TaskIds : Runs(t.node) /\ ClientHandshakeCompleted(t)
    \/ \E t \in TaskIds : Runs(t.node) /\ ClientConnectionTerminated(t)
    \/ \E t \in TaskIds : Runs(t.node) /\ HeartbeatTick(t)
    \/ \E t \in TaskIds : Runs(t.node) /\ TaskFinish(t)
    \/ \E t \in DOMAIN srv : Runs(srv[t].node) /\ ServerHandshakeCompleted(t)
    \/ \E t \in DOMAIN srv : Runs(srv[t].node) /\ ServerConnectionTerminated(t)

SpecStop == InitTwo /\ [][NextStop]_vars

----------------------------------------------------------------------------
\* Two nodes in range of each other, each with a certificate that the shared
\* CA signed or did not sign

InitAuth ==
    /\ InitNode
    /\ up \in {S \in SUBSET Node : Cardinality(S) = 2}
    /\ rx = NoRx
    /\ heard = <<>>
    /\ call \in {PendingAuth(cert) : cert \in [Node -> Certificate]}

NextAuth ==
    \/ \E n \in Node, m \in Node : BeaconReceived(n, m)
    \/ \E t \in TaskIds : TaskStart(t)
    \/ \E t \in TaskIds : ServerAccept(t)
    \/ \E t \in TaskIds : AuthConnectSucceeds(t)
    \/ \E t \in TaskIds : ConnectFails(t)
    \/ \E t \in TaskIds : ClientHandshakeCompleted(t)
    \/ \E t \in TaskIds : ClientConnectionTerminated(t)
    \/ \E t \in TaskIds : HeartbeatTick(t)
    \/ \E t \in TaskIds : TaskFinish(t)
    \/ \E t \in TaskIds : AuthServerHandshakeCompleted(t)
    \/ \E t \in TaskIds : ServerConnectionTerminated(t)

SpecAuth == InitAuth /\ [][NextAuth]_vars

----------------------------------------------------------------------------
\* Start-up of one node: HamperLinkApp.start and async_main, step by step

\* what start-up meets: whether the interface can be configured, whether
\* ensure_certs returns, whether cert.pem and key.pem can be loaded, whether
\* the QUIC port, the broadcast address and the discovery port can be had
Starting(configure_ok, ensure_ok, cert_ok, quic_ok, bcast_ok, udp_ok) ==
    [state |-> "starting", op |-> "start", pc |-> "configure",
     configure_ok |-> configure_ok, ensure_ok |-> ensure_ok,
     cert_ok |-> cert_ok, quic_ok |-> quic_ok, bcast_ok |-> bcast_ok,
     udp_ok |-> udp_ok,
     running |-> TRUE, listening |-> FALSE, broadcasting |-> FALSE,
     tui |-> FALSE, fatal |-> FALSE, debug |-> <<>>]

\* an exception reaches start(): `except Exception` prints "Fatal Error", the
\* finally clause sets running to False
Fatal(c) == [c EXCEPT !.pc = "stopped", !.fatal = TRUE, !.running = FALSE]

\* start() up to configure_adhoc: a failure is reported and start returns
Configure(c) ==
    IF c.configure_ok THEN [c EXCEPT !.pc = "certs"]
    ELSE [c EXCEPT !.pc = "stopped", !.running = FALSE]

\* CertificateManager.ensure_certs(), called outside async_main: it returns
\* or it raises
EnsureCerts(c) ==
    IF c.ensure_ok THEN [c EXCEPT !.pc = "config"] ELSE Fatal(c)

\* async_main: build_quic_config(cfg.CERT_PATH, cfg.KEY_PATH), outside every
\* try statement; load_cert_chain raises when the files cannot be loaded
BuildQuicConfig(c) ==
    IF c.cert_ok THEN [c EXCEPT !.pc = "serve"] ELSE Fatal(c)

\* async_main: `await serve(...)` inside try/except, a failure goes to the
\* debug feed and async_main goes on
Serve(c) ==
    IF c.quic_ok THEN [c EXCEPT !.pc = "discovery", !.listening = TRUE]
    ELSE [c EXCEPT !.pc = "discovery", !.debug = Append(@, "SRV Error")]

\* DiscoveryService.start: the broadcast address is worked out inside a try
\* statement, the socket is created outside of one, and only then is the
\* broadcast loop started
DiscoveryStart(c) ==
    LET d == IF c.bcast_ok THEN c
             ELSE [c EXCEPT !.debug = Append(@, "Broadcast addr calc failed")]
    IN  IF d.udp_ok THEN [d EXCEPT !.pc = "tui", !.broadcasting = TRUE]
        ELSE Fatal(d)

\* async_main: `await self.tui_loop()`
TuiLoop(c) == [c EXCEPT !.pc = "loop", !.tui = TRUE]

StartStep(pc, after) ==
    /\ call.op = "start" /\ call.pc = pc
    /\ call' = after
    /\ UNCHANGED <<peers, connecting_ips, tasks, srv, peername, up, rx, heard>>

InitStart ==
    /\ InitNode
    /\ up = Node
    /\ rx = NoRx
    /\ heard = <<>>
    /\ call \in {Starting(a, b, c, d, e, f) :
                    a \in BOOLEAN, b \in BOOLEAN, c \in BOOLEAN,
                    d \in BOOLEAN, e \in BOOLEAN, f \in BOOLEAN}

NextStart ==
    \/ StartStep("configure", Configure(call))
    \/ StartStep("certs", EnsureCerts(call))
    \/ StartStep("config", BuildQuicConfig(call))
    \/ StartStep("serve", Serve(call))
    \/ StartStep("discovery", DiscoveryStart(call))
    \/ StartStep("tui", TuiLoop(call))

SpecStart == InitStart /\ [][NextStart]_vars

----------------------------------------------------------------------------
\* The mesh of three nodes of SpecHub, with a text typed at some moment at the
\* console of 10.0.0.1

InitStall ==
    /\ InitNode
    /\ up = Node
    /\ rx = NoRx
    /\ heard = <<>>
    /\ call \in {PendingInput("A", raw) : raw \in {<<"h", "i">>, <<"/", "x">>}}

NextStall ==
    \/ NextHub
    \/ HandleInput

SpecStall == InitStall /\ [][NextStall]_vars

----------------------------------------------------------------------------
\* One call of on_peer_found at a node that has just started, for every pair
\* of a configured address and a source address

InitTie ==
    /\ InitNode
    /\ up = Node
    /\ rx = NoRx
    /\ heard = <<>>
    /\ call \in {PendingPeerFound(L, P) : L \in TieTexts, P \in TieTexts}

NextTie ==
    \/ PeerFoundObserved
    \/ \E t \in TaskIds : TaskStart(t)

SpecTie == InitTie /\ [][NextTie]_vars

----------------------------------------------------------------------------
\* Two nodes in range of each other that send each other chat texts over the
\* link they have

InitChat ==
    /\ InitNode
    /\ up \in {S \in SUBSET Node : Cardinality(S) = 2}
    /\ rx = NoRx
    /\ heard = <<>>
    /\ call \in {NoStreams(touch_sends) : touch_sends \in BOOLEAN}

NextChat ==
    \/ \E n \in Node, m \in Node : BeaconReceived(n, m)
    \/ \E t \in TaskIds : TaskStart(t)
    \/ \E t \in TaskIds : ServerAccept(t)
    \/ \E t \in TaskIds : ConnectSucceedsObserved(t)
    \/ \E t \in TaskIds : ConnectFails(t)
    \/ \E t \in TaskIds : ClientHandshakeCompleted(t)
    \/ \E t \in TaskIds : ClientConnectionTerminated(t)
    \/ \E t \in TaskIds : HeartbeatObserved(t)
    \/ \E t \in TaskIds : TaskFinish(t)
    \/ \E t \in TaskIds : ServerHandshakeCompleted(t)
    \/ \E t \in TaskIds : ServerConnectionTerminated(t)
    \/ \E t \in TaskIds : ClientSendMessage(t)
    \/ \E t \in TaskIds : ServerSendMessage(t)
    \/ \E t \in TaskIds, id \in {heartbeat_stream_id, chat_stream_id} :
          StreamArrives(t, id)

SpecChat == InitChat /\ [][NextChat]_vars

----------------------------------------------------------------------------
\* Two nodes in range of each other, the dashboard of every node observed:
\* call holds Dashboard.peer_data per node and the exception the callback
\* logged last

\* the parameters of Dashboard.update_peer(self, status, ip, ping, name)
UpdatePeerParams == {"status", "ip", "ping", "name"}

NotAvailable == <<"N", "/", "A">>

\* self.peer_data after Dashboard.__init__
NoPeerData ==
    [status |-> "SEARCHING", ip |-> NotAvailable, ping |-> "N/A", name |-> "N/A"]

\* Dashboard.update_peer called with the arguments args, each bound to the
\* parameter of its name: a name the signature does not have makes the call
\* raise TypeError before the body runs
update_peer(peer_data, args) ==
    IF DOMAIN args \subseteq UpdatePeerParams
    THEN [raised |-> None,
          peer_data |-> [k \in UpdatePeerParams |->
                            IF k \in DOMAIN args THEN args[k] ELSE NoPeerData[k]]]
    ELSE [raised |-> "TypeError", peer_data |-> peer_data]

\* the dashboard of node n after a callback has called update_peer: an
\* exception is caught by the callback's `except Exception` and logged
DashboardAfter(ui, n, args) ==
    LET r == update_peer(ui.peer_data[n], args)
    IN  [ui EXCEPT !.peer_data[n] = r.peer_data,
                   !.logged[n] = IF r.raised # None THEN r.raised ELSE @]

\* ConnectSucceeds, with the update_peer call of on_connected
ConnectSucceedsShown(t) ==
    /\ ConnectSuccess(t)
    /\ call' = IF HandshakeDoneActs(tasks[t])
               THEN DashboardAfter(call, t.node,
                        [status |-> "MESH", ip |-> t.ip, name |-> tasks[t].name,
                         count |-> Cardinality(DOMAIN peers'[t.node])])
               ELSE call

\* ServerHandshakeCompleted, with the update_peer call of on_server_connect
ServerHandshakeCompletedShown(t) ==
    /\ ServerHandshake(t)
    /\ call' = IF PeerKey(PeerLookup(t)) \notin DOMAIN peers[srv[t].node]
               THEN DashboardAfter(call, srv[t].node,
                        [status |-> "MESH", ip |-> PeerKey(PeerLookup(t)),
                         count |-> Cardinality(DOMAIN peers'[srv[t].node])])
               ELSE call

InitShown ==
    /\ InitNode
    /\ up \in {S \in SUBSET Node : Cardinality(S) = 2}
    /\ rx = NoRx
    /\ heard = <<>>
    /\ call = [op |-> "dashboard",
               peer_data |-> [n \in Node |-> NoPeerData],
               logged |-> [n \in Node |-> None]]

NextShown ==
    \/ \E n \in Node, m \in Node : BeaconReceived(n, m)
    \/ \E t \in TaskIds : TaskStart(t)
    \/ \E t \in TaskIds : ServerAccept(t)
    \/ \E t \in TaskIds : ConnectSucceedsShown(t)
    \/ \E t \in TaskIds : ConnectFails(t)
    \/ \E t \in TaskIds : ClientConnectionTerminated(t)
    \/ \E t \in TaskIds : HeartbeatTick(t)
    \/ \E t \in TaskIds : TaskFinish(t)
    \/ \E t \in TaskIds : ServerHandshakeCompletedShown(t)
    \/ \E t \in TaskIds : ServerConnectionTerminated(t)

SpecShown == InitShown /\ [][NextShown]_vars

----------------------------------------------------------------------------
\* The broadcast loop of one node, round after round, every sendto returning
\* or raising

\* what transport.sendto raises when it raises: the datagram transport
\* reports socket errors to the protocol (error_received) and raises for an
\* argument it rejects or a socket it cannot use
SendtoRaises == {"TypeError", "ValueError", "OSError"}

\* `except Exception as e` of _broadcast_loop
BroadcastCaught(e) == e \in {"TypeError", "ValueError", "OSError"}

\* a failing sendto ending the broadcast loop
AfterSendto_escapes(c, e) ==
    IF e = "None"
    THEN [c EXCEPT !.pc = "sleep", !.attempts = Append(@, "sent")]
    ELSE [c EXCEPT !.pc = "ended", !.attempts = Append(@, "failed")]

\* _broadcast_loop after transport.sendto has returned (e is None) or raised
\* e: a caught exception goes to the debug feed, and the loop reaches its
\* sleep either way
AfterSendto(c, e) ==
    IF e = None
    THEN [c EXCEPT !.pc = "sleep", !.attempts = Append(@, "sent")]
    ELSE IF BroadcastCaught(e)
    THEN [c EXCEPT !.pc = "sleep", !.attempts = Append(@, "failed"),
                   !.debug = @ + 1]
    ELSE [c EXCEPT !.pc = "ended", !.attempts = Append(@, "failed")]

\* the loop as DiscoveryService.start leaves it: the socket exists,
\* broadcasting is True and the first round is about to run
Broadcasting ==
    [op |-> "broadcast", pc |-> "top", broadcasting |-> TRUE,
     transport |-> TRUE, ticks |-> 1, attempts |-> <<>>, debug |-> 0]

\* one round of `while self.broadcasting` up to its sleep
BroadcastRound ==
    /\ call.op = "broadcast" /\ call.pc = "top"
    /\ IF ~call.broadcasting
       THEN call' = [call EXCEPT !.pc = "ended"]
       ELSE IF ~call.transport
       THEN call' = [call EXCEPT !.pc = "sleep"]
       ELSE \E e \in SendtoRaises \cup {None} : call' = AfterSendto(call, e)
    /\ UNCHANGED <<peers, connecting_ips, tasks, srv, peername, up, rx, heard>>

\* asyncio.sleep(cfg.BEACON_INTERVAL) returns
BeaconInterval ==
    /\ call.op = "broadcast" /\ call.pc = "sleep"
    /\ call.ticks < MaxTicks
    /\ call' = [call EXCEPT !.pc = "top", !.ticks = @ + 1]
    /\ UNCHANGED <<peers, connecting_ips, tasks, srv, peername, up, rx, heard>>

InitBeacon ==
    /\ InitNode
    /\ up = Node
    /\ rx = NoRx
    /\ heard = <<>>
    /\ call = Broadcasting

NextBeacon ==
    \/ BroadcastRound
    \/ BeaconInterval

SpecBeacon == InitBeacon /\ [][NextBeacon]_vars

----------------------------------------------------------------------------
\* Three nodes, 10.0.0.10 in range of the two others, which are out of range
\* of each other: both dial 10.0.0.10, whose listener admits two peers

Reaches(n, m) == {n, m} # {"A", "B"}

NextSink ==
    \/ \E n \in Node, m \in Node : Reaches(n, m) /\ BeaconReceived(n, m)
    \/ LinkStep

SpecSink == Init /\ [][NextSink]_vars

----------------------------------------------------------------------------
\* The Chatter stream of an Established link, one direction: the texts
\* send_message has written, the bytes of the stream not yet delivered, and
\* the texts the message callback of the receiving end was called with. The
\* transport keeps the bytes in order and hands them over in events whose
\* boundaries it chooses (a stream frame carries any run of the bytes).

\* role is the class of the receiving end: "server" (HampterProtocol, the
\* sender being QuicClient.send_message) or "client" (HampterClientProtocol,
\* the sender being HampterProtocol.send_message)
ChatterStream(role) ==
    [op |-> "wire", role |-> role, sent |-> <<>>, stream |-> <<>>, got |-> <<>>]

\* send_message(text): the encoded text is appended to stream 4, nothing
\* before or after it
SendMessage(text) ==
    /\ call.op = "wire"
    /\ Len(call.sent) < MaxSends
    /\ call' = [call EXCEPT !.sent = Append(@, text),
                            !.stream = @ \o Utf8Encode(text)]
    /\ UNCHANGED <<peers, connecting_ips, tasks, srv, peername, up, rx, heard>>

\* a StreamDataReceived event with the first k bytes of the stream reaches
\* quic_event_received of the receiving end
ChatterDataReceived(k) ==
    /\ call.op = "wire"
    /\ k \in 1..Len(call.stream)
    /\ LET data == SubSeq(call.stream, 1, k)
           effect == IF call.role = "server"
                     THEN ServerOnStreamData(chat_stream_id, data)
                     ELSE ClientOnStreamData(chat_stream_id, data)
       IN  call' = [call EXCEPT
                      !.stream = SubSeq(@, k + 1, Len(@)),
                      !.got = @ \o effect.surfaced]
    /\ UNCHANGED <<peers, connecting_ips, tasks, srv, peername, up, rx, heard>>

InitWire ==
    /\ InitNode
    /\ up = Node
    /\ rx = NoRx
    /\ heard = <<>>
    /\ call \in {ChatterStream(role) : role \in {"client", "server"}}

NextWire ==
    \/ \E text \in Texts : SendMessage(text)
    \/ \E k \in 1..(2 * MaxSends) : ChatterDataReceived(k)

SpecWire == InitWire /\ [][NextWire]_vars

----------------------------------------------------------------------------
\* Properties

LiveTasks(n, ip) ==
    {t \in TaskIds : t.node = n /\ t.ip = ip /\ tasks[t].pc # "done"}

\* C1 (SpecTwo). Tie-break symmetry: of two nodes that hear each other, only
\* the one with the numerically smaller address ever has a connect task
\* toward the other, so the two never dial each other.
C1_TieBreakSymmetry ==
    \A t \in TaskIds :
        /\ IpInt(ip_address(t.node)) < IpInt(t.ip)
        /\ ~\E u \in TaskIds : ip_address(u.node) = t.ip /\ u.ip = ip_address(t.node)

\* C1 witness: 10.0.0.10 has heard the beacon of 10.0.0.2 and stayed passive
\* while 10.0.0.2, having heard 10.0.0.10, has a connect task toward it.
C1_Witness ==
    /\ rx.state = "handled" /\ rx.outcome = "passive"
    /\ rx.node = "C" /\ rx.addr = ip_address("B")
    /\ \E t \in TaskIds : t.node = "B" /\ t.ip = ip_address("C")

C3_MarkedWhenScheduled ==
    \A t \in TaskIds :
        tasks[t].pc # "done" =>
            /\ Cardinality(LiveTasks(t.node, t.ip)) <= 1
            /\ t.ip \in connecting_ips[t.node]

\* C3 amended (SpecTwo): a node has at most one unfinished connect task per
\* address; the address is in the in-flight set from the first step of the
\* task (not from its scheduling) until the task ends.
C3_OneAttemptPerPeer ==
    \A t \in TaskIds :
        /\ tasks[t].pc # "done" => Cardinality(LiveTasks(t.node, t.ip)) <= 1
        /\ tasks[t].pc \in {"connecting", "heartbeat", "closing"}
              => t.ip \in connecting_ips[t.node]

\* C3 witness: a second announcement was delivered while the connect task
\* for its address was awaiting the handshake, and it was dropped.
C3_Witness ==
    /\ rx.state = "handled" /\ rx.outcome = "known"
    /\ rx.addr \notin DOMAIN peers[rx.node]
    /\ \E t \in TaskIds :
          t.node = rx.node /\ t.ip = rx.addr /\ tasks[t].pc = "connecting"

\* whether the link a registry entry refers to has been closed: the transport
\* reported termination, or (outbound) connect_to has ended
LinkClosed(e) ==
    IF e.type = "client"
    THEN tasks[e.protocol].term \/ tasks[e.protocol].pc = "done"
    ELSE srv[e.protocol].term

\* C4 as stated (Spec): every registry entry refers to a link that has not
\* been closed.
C4_NoClosedEntry ==
    \A n \in Node : \A k \in DOMAIN peers[n] : ~LinkClosed(peers[n][k])

\* C5 as stated (Spec): once the transport of an outbound link that was
\* Established has reported termination and the link is closed, the
\* disconnected callback has fired exactly once and the registry holds no
\* entry for the peer.
C5_ClosedOnce ==
    \A t \in TaskIds :
        (tasks[t].cb > 0 /\ tasks[t].term /\ tasks[t].pc = "done") =>
            /\ tasks[t].disc = 1
            /\ t.ip \notin DOMAIN peers[t.node]

\* C6 as stated (Spec): the connected callback of a link fires at most once,
\* outbound and inbound, however often handshake completion is signalled.
C6_ConnectedOnce ==
    /\ \A t \in TaskIds : tasks[t].cb <= 1 /\ (tasks[t].connected => tasks[t].cb = 1)
    /\ \A t \in DOMAIN srv : srv[t].cb <= 1

\* C7 as stated (Spec): while an outbound link is Established its peer is in
\* the registry and not in the in-flight set.
C7_LeavesInFlight ==
    \A t \in TaskIds :
        tasks[t].connected =>
            /\ t.ip \in DOMAIN peers[t.node]
            /\ t.ip \notin connecting_ips[t.node]

\* C7 amended (Spec): while an outbound link is Established the registry
\* entry of its peer holds that link with the hostname the peer announced;
\* the peer stays in the in-flight set (it leaves only when connect_quic ends).
C7_OutboundAdmission ==
    \A t \in TaskIds :
        tasks[t].connected =>
            /\ t.ip \in DOMAIN peers[t.node]
            /\ peers[t.node][t.ip].type = "client"
            /\ peers[t.node][t.ip].protocol = t
            /\ \A m \in Listener(t) : peers[t.node][t.ip].name = get_hostname(m)
            /\ t.ip \in connecting_ips[t.node]

\* C7 witness: an outbound link is Established.
C7_Witness ==
    \E t \in TaskIds : tasks[t].connected /\ tasks[t].pc = "heartbeat"

\* C8 as stated (Spec): once an inbound link has completed its handshake the
\* registry of the listener holds an entry keyed by the address of the
\* dialing node.
C8_InboundKeyedByAddress ==
    \A t \in DOMAIN srv :
        srv[t].cb > 0 => ip_address(t.node) \in DOMAIN peers[srv[t].node]

\* C9 as stated (SpecTwo): with only 10.0.0.1 and 10.0.0.2 up, 10.0.0.2 never
\* dials, and once the link 10.0.0.1 opened is Established on both sides each
\* registry holds exactly one entry, keyed by the address of the other node.
C9_Scenario ==
    up = {"A", "B"} =>
        /\ \A t \in TaskIds : t.node = "A" /\ t.ip = ip_address("B")
        /\ \A t \in TaskIds :
              (tasks[t].connected /\ t \in DOMAIN srv /\ srv[t].cb > 0) =>
                  /\ DOMAIN peers["A"] = {ip_address("B")}
                  /\ DOMAIN peers["B"] = {ip_address("A")}

\* the hostname a datagram embeds, if it embeds one
EmbeddedHostname(d) ==
    IF d.json.kind = "object" THEN InfoHostname(d.json.val) ELSE None

\* C10 (SpecDisc). Self-filter: a datagram that embeds the hostname of the
\* node receiving it never reaches on_peer_found and starts no connect task,
\* whatever else it holds and whatever address it comes from.
C10_SelfFilter ==
    (rx.state = "handled" /\ EmbeddedHostname(rx.data) = get_hostname(rx.node))
        => rx.outcome = "dropped" /\ tasks = <<>>

\* C10 witness: a well-formed datagram with the local hostname, another
\* status and the address of another node has been handled.
C10_Witness ==
    /\ rx.state = "handled"
    /\ rx.data.magic /\ rx.data.json.kind = "object"
    /\ EmbeddedHostname(rx.data) = get_hostname(rx.node)
    /\ rx.data.json.val.status = "BUSY"
    /\ rx.addr # ip_address(rx.node)

\* C11 (SpecListen). Malformed discovery datagrams are dropped: handling a
\* datagram never raises; a datagram without the magic prefix or whose payload
\* is no JSON object is dropped without reaching on_peer_found and without
\* starting a task; and a well-formed announcement from a larger address not
\* yet known still starts its connect task, whatever was dropped before it.
C11_MalformedDropped ==
    [][(rx.state = "pending" /\ rx'.state = "handled") =>
          /\ rx'.outcome # "raised"
          /\ Malformed(rx.data) => (rx'.outcome = "dropped" /\ tasks' = tasks)
          /\ ( /\ ~Malformed(rx.data)
               /\ InfoHostname(rx.data.json.val) # get_hostname(rx.node)
               /\ IpInt(ip_address(rx.node)) < IpInt(rx.addr)
               /\ rx.addr \notin DOMAIN peers[rx.node]
               /\ rx.addr \notin connecting_ips[rx.node] )
              => \E t \in DOMAIN tasks' \ DOMAIN tasks :
                    t.node = rx.node /\ t.ip = rx.addr]_vars

\* C11 witness: two malformed datagrams in a row
\* were dropped, and the announcement that followed started a connect task.
C11_Witness ==
    /\ rx.state = "handled" /\ rx.outcome = "scheduled"
    /\ Len(heard) = 2
    /\ \A i \in 1..2 : heard[i].malformed /\ heard[i].outcome = "dropped"
    /\ \E t \in TaskIds : t.node = rx.node /\ t.ip = rx.addr

\* the elements of a sequence
Range(q) == {q[i] : i \in DOMAIN q}

\* C12 (SpecInput). Broadcast partial failure: when a text that is no command
\* is broadcast, handle_input does not raise, send_message is called on every
\* entry of the registry, every entry whose transport raised is reported (on
\* the debug feed for an outbound entry, by the logger of the protocol for an
\* inbound one) and every Established entry whose transport did not raise has
\* the text on its chat stream.
C12_BroadcastPartialFailure ==
    ( /\ call.state = "handled" /\ call.op = "handle_input"
      /\ strip(call.text) # <<>> /\ strip(call.text)[1] # "/" )
        => LET ps == peers[call.node]
               e == call.effect
           IN  /\ e.raised = None
               /\ Range(e.sent) = DOMAIN ps
               /\ \A k \in DOMAIN ps :
                     /\ ( /\ k \in call.fails
                          /\ (ps[k].type = "server" \/ Established(ps[k])) )
                            => k \in e.debug \cup e.logged
                     /\ (k \notin call.fails /\ Established(ps[k]))
                            => k \in e.wired

\* C12 witness: the registry has two entries, the send to the one that comes
\* first raised and was reported, and the text went out to the other.
C12_Witness ==
    /\ call.state = "handled" /\ call.op = "handle_input"
    /\ Len(call.effect.sent) = 2
    /\ call.effect.sent[1] \in call.effect.debug
    /\ call.effect.sent[2] \in call.effect.wired
    /\ call.effect.raised = None

\* C13 as stated (SpecInput): send_message on a registry entry whose link is
\* not Established does not raise and puts nothing on a stream.
C13_SilentWhenNotEstablished ==
    (call.state = "handled" /\ call.op = "handle_input")
        => \A k \in Range(call.effect.sent) :
              ~Established(peers[call.node][k])
                  => k \notin call.effect.wired /\ k \notin call.effect.debug

\* C14 (SpecDial). A failed connect attempt leaves no residue: the step in
\* which the attempt of a node toward P fails leaves P in neither the
\* registry nor the in-flight set of the node, and as long as no new attempt
\* toward P exists an announcement from P handled by the node starts one.
C14_NoResidue ==
    [][/\ \A t \in DOMAIN tasks :
            t \notin DOMAIN tasks'
                => /\ t.ip \notin DOMAIN peers'[t.node]
                   /\ t.ip \notin connecting_ips'[t.node]
       /\ ( /\ call.state = "handled" /\ call.op = "connect_to"
            /\ rx' # rx
            /\ rx'.node = call.task.node /\ rx'.addr = call.task.ip
            /\ ~\E u \in DOMAIN tasks :
                    u.node = call.task.node /\ u.ip = call.task.ip )
             => /\ rx'.outcome = "scheduled"
                /\ \E u \in DOMAIN tasks' :
                      u.node = call.task.node /\ u.ip = call.task.ip]_vars

\* C14 witness: the attempt of a node toward P failed and the announcement of
\* P that came next started the attempt that is now waiting for its first
\* step.
C14_Witness ==
    /\ call.state = "handled" /\ call.op = "connect_to"
    /\ rx.state = "handled" /\ rx.outcome = "scheduled"
    /\ rx.node = call.task.node /\ rx.addr = call.task.ip
    /\ \E u \in TaskIds :
          u.node = call.task.node /\ u.ip = call.task.ip
              /\ tasks[u].pc = "scheduled"

\* C15 as stated (SpecStream): a PING received on the Heartbeat stream, in the
\* form the keep-alive loop of the client writes it, is answered with data
\* written back on that stream, by HampterProtocol and by HampterNode.
C15_PingAnswered ==
    ( /\ call.state = "handled" /\ call.op = "stream_data"
      /\ call.role \in {"server", "engine"}
      /\ get_lane_from_stream_id(call.stream_id) = HEARTBEAT
      /\ call.stream_id = heartbeat_stream_id
      /\ call.data = ClientPing )
        => /\ Len(call.effect.reply) = 1
           /\ call.effect.reply[1].stream = call.stream_id

\* C17 as stated (SpecStream): on both production roles a text is handed to
\* the message callback only for data that arrived on the Chatter stream;
\* data that arrived on the Heartbeat stream is never handed to it.
C17_OnlyChatterSurfaced ==
    ( /\ call.state = "handled" /\ call.op = "stream_data"
      /\ call.role \in {"client", "server"} )
        => /\ call.effect.surfaced # <<>> => call.stream_id = chat_stream_id
           /\ call.stream_id = heartbeat_stream_id => call.effect.surfaced = <<>>

\* C16 (SpecTwoFair). Heartbeat failure forces Closed: the keep-alive loop is
\* left only toward the closing of the connection; once it is left the task
\* never returns to it (no further PING); the closing ends, and when it has
\* ended connected is false and the address is out of the in-flight set.
C16_HeartbeatFailureCloses ==
    /\ [][\A t \in DOMAIN tasks :
            /\ (tasks[t].pc = "heartbeat" /\ t \in DOMAIN tasks'
                    /\ tasks'[t].pc # "heartbeat") => tasks'[t].pc = "closing"
            /\ tasks[t].pc \in {"closing", "done"}
                  => /\ t \in DOMAIN tasks'
                     /\ tasks'[t].pc \in {"closing", "done"}
            /\ (t \in DOMAIN tasks' /\ tasks'[t].pc = "done")
                  => /\ ~tasks'[t].connected
                     /\ t.ip \notin connecting_ips'[t.node]]_vars
    /\ \A t \in LinkIds :
          (t \in DOMAIN tasks /\ tasks[t].pc = "closing")
              ~> ( /\ t \in DOMAIN tasks
                   /\ tasks[t].pc = "done" /\ ~tasks[t].connected
                   /\ t.ip \notin connecting_ips[t.node] )

\* C16 witness: a link that was Established has left the keep-alive loop and
\* its closing has ended.
C16_Witness ==
    \E t \in TaskIds :
        /\ tasks[t].pc = "done" /\ tasks[t].cb = 1
        /\ ~tasks[t].connected
        /\ t.ip \notin connecting_ips[t.node]

\* send_message was called once on every key of K and on nothing else
OnceEach(q, K) == Len(q) = Cardinality(K) /\ Range(q) = K

\* C18 as stated (SpecInput): a text that starts with "/" causes no send and
\* no change of the registry; any other text that is not empty is sent once
\* to every entry of the registry.
C18_CommandsStayLocal ==
    [][(call.state = "pending" /\ call.op = "handle_input"
            /\ call'.state = "handled") =>
          LET raw == call.text
              e == call'.effect
          IN  /\ (raw # <<>> /\ raw[1] = "/")
                    => e.sent = <<>> /\ e.wired = {} /\ peers' = peers
              /\ (raw # <<>> /\ raw[1] # "/")
                    => OnceEach(e.sent, DOMAIN peers[call.node])]_vars

\* C18 amended (SpecInput): the text is judged after surrounding whitespace
\* has been stripped. If what is left starts with "/" nothing is sent and the
\* registry is unchanged; if what is left is not empty and does not start
\* with "/", send_message is called once on every entry of the registry,
\* which is unchanged; if nothing is left, nothing is sent.
C18_StrippedCommandsStayLocal ==
    [][(call.state = "pending" /\ call.op = "handle_input"
            /\ call'.state = "handled") =>
          LET msg == strip(call.text)
              e == call'.effect
          IN  /\ peers' = peers
              /\ (msg = <<>> \/ msg[1] = "/") => e.sent = <<>> /\ e.wired = {}
              /\ (msg # <<>> /\ msg[1] # "/")
                    => OnceEach(e.sent, DOMAIN peers[call.node])]_vars

\* C18 witness: a command typed after a space was handled at a node whose
\* registry has two entries, and nothing was sent.
C18_Witness ==
    /\ call.state = "handled" /\ call.op = "handle_input"
    /\ call.text = <<" ", "/", "x">>
    /\ Cardinality(DOMAIN peers[call.node]) = 2
    /\ call.effect.sent = <<>>
    /\ call.effect.log = <<"Unknown command">>

\* C19 as stated (SpecEngine): decoding the bytes made by prepending the type
\* tag gives back type and payload, for every packet type and payloads of 0,
\* 1 and several bytes; and the bytes d passed to send_telemetry on a
\* connected node reach the Heartbeat handler of the other end as exactly d.
C19_FrameRoundTrip ==
    /\ \A type \in PacketType, payload \in Payloads :
          DecodeFrame(EncodeFrame(type, payload))
              = [type |-> type, payload |-> payload]
    /\ ( /\ call.op = "engine" /\ call.state = "handled"
         /\ call.last.op = "send_telemetry"
         /\ call.connected /\ HEARTBEAT \in call.handlers )
           => call.effect.handler
                  = <<[lane |-> HEARTBEAT, arg |-> call.last.arg]>>

\* the failures of the link of task t: its connect attempt fails, its
\* heartbeat fails, it is closed, or one of its ends reports termination
FailureStep(t) ==
    /\ t \in DOMAIN tasks
    /\ \/ t \notin DOMAIN tasks'
       \/ /\ t \in DOMAIN tasks'
          /\ \/ tasks[t].pc = "heartbeat" /\ tasks'[t].pc = "closing"
             \/ tasks[t].pc = "closing" /\ tasks'[t].pc = "done"
             \/ ~tasks[t].term /\ tasks'[t].term
             \/ /\ t \in DOMAIN srv /\ t \in DOMAIN srv'
                /\ ~srv[t].term /\ srv'[t].term

\* C20 (SpecHub). Per-peer failure isolation: a step in which the link of a
\* node toward P fails leaves every other connect task and protocol instance
\* as it was, changes no registry entry and no in-flight membership other
\* than that of P at that node, and does not touch discovery (the nodes that
\* are up, and whether a node is ready to handle its next datagram).
C20_FailureIsolation ==
    [][\A t \in DOMAIN tasks :
          FailureStep(t) =>
              /\ \A u \in DOMAIN tasks \ {t} :
                    u \in DOMAIN tasks' /\ tasks'[u] = tasks[u]
              /\ \A u \in DOMAIN srv \ {t} :
                    u \in DOMAIN srv' /\ srv'[u] = srv[u]
              /\ \A n \in Node :
                    /\ \A k \in DOMAIN peers[n] \cup DOMAIN peers'[n] :
                          (n # t.node \/ k # t.ip)
                              => /\ k \in DOMAIN peers[n]
                                 /\ k \in DOMAIN peers'[n]
                                 /\ peers'[n][k] = peers[n][k]
                    /\ \A k \in connecting_ips[n] \cup connecting_ips'[n] :
                          (n # t.node \/ k # t.ip)
                              => k \in connecting_ips[n] \cap connecting_ips'[n]
                    /\ FirstStepPending(n)' = FirstStepPending(n)
              /\ up' = up]_vars

\* C20 witness: of the two links a node opened, one has failed and been
\* closed while the other is Established, in the registry and in flight.
C20_Witness ==
    \E t \in TaskIds, u \in TaskIds :
        /\ t # u /\ t.node = u.node
        /\ tasks[t].pc = "done"
        /\ tasks[u].pc = "heartbeat" /\ tasks[u].connected
        /\ u.ip \in DOMAIN peers[u.node]
        /\ peers[u.node][u.ip].protocol = u
        /\ u.ip \in connecting_ips[u.node]

\* C21 as stated (SpecStop). Shutdown: once a node is stopped every link of
\* its registry is closed and it has no connect task that is scheduled,
\* connecting or holding a link; and from then on no beacon of the node is
\* heard and no task, callback or registry entry of the node changes.
C21_ShutdownClean ==
    /\ [](\A n \in Node \ up :
            /\ \A k \in DOMAIN peers[n] : LinkClosed(peers[n][k])
            /\ \A t \in TaskIds : t.node = n => tasks[t].pc = "done")
    /\ [][\A n \in Node \ up :
            /\ peers'[n] = peers[n]
            /\ connecting_ips'[n] = connecting_ips[n]
            /\ \A t \in DOMAIN tasks :
                  t.node = n => t \in DOMAIN tasks' /\ tasks'[t] = tasks[t]
            /\ \A t \in DOMAIN tasks' : t.node = n => t \in DOMAIN tasks
            /\ \A t \in DOMAIN srv :
                  (srv[t].node = n /\ t \in DOMAIN srv') => srv'[t] = srv[t]
            /\ rx' # rx => (rx'.node # n /\ rx'.addr # ip_address(n))]_vars

\* C22 as stated (SpecAuth). Mutual authentication: a link is Established at
\* an end, and that end has called its connected callback and written its
\* registry entry, only if the certificate each end presented was signed by
\* the shared CA.
C22_MutualAuthentication ==
    \A t \in TaskIds :
        LET BothSigned ==
                /\ ClientPresents(call.cert[t.node]) = "ca"
                /\ ServerPresents(call.cert[NodeAt(t.ip)]) = "ca"
        IN  /\ tasks[t].cb > 0 => BothSigned
            /\ (t \in DOMAIN srv /\ srv[t].cb > 0) => BothSigned

\* C23 (SpecStart). Configuration errors are fatal at start-up: a node whose
\* certificate material cannot be loaded or whose discovery socket cannot be
\* bound never enters the input loop and never starts the broadcast loop, and
\* once start-up has come to the step that fails, it has stopped with the
\* error reported as fatal.
C23_ConfigErrorsFatal ==
    call.op = "start" =>
        /\ (~call.cert_ok \/ ~call.udp_ok)
              => ~call.tui /\ ~call.broadcasting /\ call.pc # "loop"
        /\ (~call.cert_ok /\ call.pc \notin {"configure", "certs", "config"})
              => call.pc = "stopped" /\ ~call.running
        /\ (~call.udp_ok
                /\ call.pc \notin {"configure", "certs", "config", "serve",
                                   "discovery"})
              => call.pc = "stopped" /\ ~call.running
        /\ (call.pc = "stopped" /\ call.configure_ok) => call.fatal

\* C23 witness: the certificate was loaded and the listener is up, the
\* discovery port could not be bound, and start-up has stopped with a fatal
\* error before the broadcast loop and the input loop.
C23_Witness ==
    /\ call.op = "start" /\ call.pc = "stopped" /\ call.fatal
    /\ call.cert_ok /\ call.listening /\ ~call.udp_ok
    /\ ~call.broadcasting /\ ~call.tui

\* a connect attempt that has started and whose handshake has not ended
Stalled(t) == t \in DOMAIN tasks /\ tasks[t].pc = "connecting"

\* the node has run the first step of every task it created and the model
\* has room for one more task
ReadyToHear(n) ==
    /\ ~\E u \in TaskIds : u.node = n /\ tasks[u].pc = "scheduled"
    /\ Cardinality(TaskIds) < MaxTasks

\* C24 (SpecStall). Non-blocking handshake: while a connect attempt of a node
\* is waiting for its handshake, the beacons of the node are still heard by
\* the nodes in range, the node still handles the announcements of the other
\* nodes, a text typed at the node is still broadcast, and the other links of
\* the node still take their steps and get their transport events.
C24_NonBlockingHandshake ==
    \A t \in TaskIds :
        Stalled(t) =>
            /\ \A m \in Node :
                  (InRange(m, t.node) /\ ReadyToHear(m))
                      => ENABLED BeaconReceived(m, t.node)
            /\ \A m \in Node :
                  (InRange(t.node, m) /\ ReadyToHear(t.node))
                      => ENABLED BeaconReceived(t.node, m)
            /\ (call.state = "pending" /\ call.node = t.node)
                  => ENABLED HandleInput
            /\ \A u \in TaskIds \ {t} :
                  /\ (tasks[u].pc = "connecting" /\ u \in DOMAIN srv)
                        => ENABLED ConnectSucceeds(u)
                  /\ tasks[u].pc = "heartbeat"
                        => /\ ENABLED HeartbeatTick(u)
                           /\ ENABLED ClientHandshakeCompleted(u)
                  /\ (u \in DOMAIN srv /\ ~srv[u].term /\ srv[u].cb < MaxSignals)
                        => ENABLED ServerHandshakeCompleted(u)

\* C24 witness: the attempt of 10.0.0.1 toward one node is waiting for a
\* listener that has not answered, its link to the other node is Established,
\* and the text typed meanwhile has gone out on that link.
C24_Witness ==
    \E t \in TaskIds, u \in TaskIds :
        /\ t.node = "A" /\ u.node = "A" /\ t # u
        /\ Stalled(t) /\ t \notin DOMAIN srv
        /\ tasks[u].pc = "heartbeat" /\ tasks[u].connected
        /\ call.state = "handled" /\ call.op = "handle_input"
        /\ call.effect.wired = {u.ip}

\* the value of a text as a 32-bit address, worked out by hand for the
\* texts of TieTexts; -1 for a text that is no address
AsInt32(s) ==
    CASE s = <<"1", "0", ".", "0", ".", "0", ".", "1">> -> 167772161
      [] s = <<"1", "0", ".", "0", ".", "0", ".", "2">> -> 167772162
      [] s = <<"1", "0", ".", "0", ".", "0", ".", "9">> -> 167772169
      [] s = <<"1", "0", ".", "0", ".", "0", ".", "1", "0">> -> 167772170
      [] s = <<"9", ".", "0", ".", "0", ".", "1">> -> 150994945
      [] OTHER -> -1

\* L > P as the tie-break rule means it
RuleGreater(L, P) ==
    IF AsInt32(L) >= 0 /\ AsInt32(P) >= 0 THEN AsInt32(L) > AsInt32(P)
    ELSE StrGreater(L, P)

C26_LaneRouting ==
    (call.op = "engine" /\ call.state = "handled" /\ call.last.sent) =>
        LET lane == SendLane(call.last.op)
        IN  /\ get_lane_from_stream_id(call.last.stream) = lane
            /\ \A i \in DOMAIN call.effect.handler :
                  call.effect.handler[i].lane = lane
            /\ lane \in call.handlers => Len(call.effect.handler) = 1

\* C27 (SpecStream). On the Heartbeat lane of HampterNode an empty buffer
\* and a frame whose type byte is not PING, PONG or TELEMETRY are dropped:
\* nothing is written back, no handler is called, nothing is raised and the
\* node stays connected.
C27_HeartbeatDrops ==
    ( /\ call.state = "handled" /\ call.op = "stream_data"
      /\ call.role = "engine"
      /\ get_lane_from_stream_id(call.stream_id) = HEARTBEAT
      /\ (call.data = <<>> \/ call.data[1] \notin {PING, PONG, TELEMETRY}) )
        => /\ call.effect.reply = <<>>
           /\ call.effect.handler = <<>>
           /\ call.effect.surfaced = <<>>
           /\ call.effect.raised = None
           /\ call.connected

\* C27 witness: a text frame arrived on a stream of the Heartbeat lane of a
\* node with a handler for every lane, and nothing was done with it.
C27_Witness ==
    /\ call.state = "handled" /\ call.op = "stream_data"
    /\ call.role = "engine" /\ call.handlers = Lane
    /\ call.stream_id = 4 /\ call.data = <<MSG_TEXT, 104>>
    /\ call.effect = NoStreamEffect

\* the packet types valid on a lane
ValidTypes(lane) ==
    CASE lane = HEARTBEAT -> {PING, PONG, TELEMETRY}
      [] lane = CHATTER -> {MSG_TEXT, MSG_ACK}
      [] lane = FLOW -> {AV_DATA}
      [] lane = HAUL -> {FILE_START, FILE_DATA, FILE_END}

\* C28 as stated (SpecStream). Lane/type validity: HampterNode hands the
\* data of a stream event to the handler of the lane only if the data is a
\* frame whose type is valid for that lane; on the Chatter, Flow and Haul
\* lanes a frame of another lane's type or of no known type reaches no
\* handler.
C28_LaneTypeValidity ==
    ( /\ call.state = "handled" /\ call.op = "stream_data"
      /\ call.role = "engine" )
        => \A i \in DOMAIN call.effect.handler :
              /\ call.data # <<>>
              /\ call.data[1] \in ValidTypes(call.effect.handler[i].lane)

\* C29 as stated (SpecChat). In the step in which an outbound link becomes
\* Established the dialing side has opened the Heartbeat and the Chatter
\* stream; and a chat text the listener sends to a peer of its registry,
\* while the link is alive at both ends, is taken by the transport and put on
\* the Chatter stream.
C29_ChatterOpenAtEstablished ==
    [][/\ \A t \in DOMAIN tasks :
            ( /\ t \in DOMAIN tasks'
              /\ ~tasks[t].connected /\ tasks'[t].connected )
                => {heartbeat_stream_id, chat_stream_id}
                       \subseteq StreamsOf(call'.opened, t)
       /\ call'.last # call.last
            => LET t == call'.last.task
               IN  ( /\ srv[t].cb > 0 /\ ~srv[t].term
                     /\ tasks[t].pc \in {"connecting", "heartbeat"}
                     /\ ~tasks[t].term )
                       => call'.last.outcome = "wired"]_vars

\* C30 as stated (SpecTwo). When a node handles an announcement from an
\* address whose registry entry was admitted from an inbound connection, the
\* entry has the announced hostname as its name afterwards.
C30_NameFromAnnouncement ==
    [][( /\ rx' # rx /\ rx'.state = "handled"
         /\ rx'.addr \in DOMAIN peers[rx'.node]
         /\ peers[rx'.node][rx'.addr].type = "server" )
          => /\ rx'.addr \in DOMAIN peers'[rx'.node]
             /\ peers'[rx'.node][rx'.addr].name
                    = InfoHostname(rx'.data.json.val)]_vars

\* C31 as stated (SpecShown). Every step that admits a peer into the registry
\* of a node, from an inbound or an outbound connection, leaves the dashboard
\* of that node showing the status MESH and the address of the peer.
C31_AdmissionSurfaced ==
    [][\A n \in Node, ip \in Addr \cup {Unknown} :
          ( /\ ip \in DOMAIN peers'[n]
            /\ ip \in DOMAIN peers[n] => peers'[n][ip] # peers[n][ip] )
             => /\ call'.peer_data[n].status = "MESH"
                /\ call'.peer_data[n].ip = ip]_vars

\* C32 (SpecBeacon). While discovery is running every round of the broadcast
\* loop attempts one send: the loop never ends, the rounds begun and the
\* sends attempted keep step, and a round whose send fails reaches the sleep
\* of the loop like any other, with the failure in the debug feed.
C32_BeaconEveryTick ==
    /\ [](/\ call.pc # "ended"
          /\ call.broadcasting
          /\ Len(call.attempts) = IF call.pc = "sleep" THEN call.ticks
                                  ELSE call.ticks - 1)
    /\ [][( /\ Len(call'.attempts) > Len(call.attempts)
            /\ call'.attempts[Len(call'.attempts)] = "failed" )
             => /\ call'.pc = "sleep"
                /\ call'.debug = call.debug + 1]_vars

\* a send failed in one round and the next round attempted a send again
C32_Witness ==
    \E i \in DOMAIN call.attempts :
        call.attempts[i] = "failed" /\ Len(call.attempts) > i

\* C33 as stated (SpecTwo). Reconnection after loss: when a node whose
\* outbound link to a peer has ended (its connect task is done and no other
\* is under way) handles an announcement of that peer, it starts a new
\* connect task toward the peer.
C33_RedialAfterLoss ==
    [][( /\ rx' # rx /\ rx'.state = "handled"
         /\ LiveTasks(rx'.node, rx'.addr) = {}
         /\ \E t \in TaskIds :
               /\ t.node = rx'.node /\ t.ip = rx'.addr
               /\ tasks[t].pc = "done" )
          => \E u \in DOMAIN tasks' \ DOMAIN tasks :
                u.node = rx'.node /\ u.ip = rx'.addr]_vars

\* C34 as stated (SpecDisc). No self-dial: no node has a connect task toward
\* its own configured address; in particular a datagram that comes from the
\* node's own address and carries the hostname of another node starts none.
C34_NoSelfDial ==
    /\ \A t \in TaskIds : t.ip # ip_address(t.node)
    /\ ( /\ rx.state = "handled"
         /\ rx.addr = ip_address(rx.node) )
          => rx.outcome # "scheduled"

\* C35 as stated (SpecDisc). The self-filter drops only the node's own
\* beacons: a beacon (magic prefix, JSON object with a hostname and the
\* status READY) that comes from another address than the node's own is
\* handed to on_peer_found, also when it carries the node's hostname.
C35_OnlyOwnBeaconsDropped ==
    ( /\ rx.state = "handled"
      /\ rx.data \in {Beacon(m) : m \in Node}
      /\ rx.addr # ip_address(rx.node) )
       => rx.outcome \in {"passive", "known", "scheduled"}

\* C36 (SpecSink). Inbound admission never overwrites: a step in which the
\* listener sees a handshake complete leaves every entry its registry already
\* has as it is (type, link and name), whereas a step in which an outbound
\* connect succeeds leaves the entry of the dialed address being the client
\* entry of that very link.
C36_InboundNeverOverwrites ==
    [][/\ \A t \in DOMAIN srv :
            (t \in DOMAIN srv' /\ srv'[t].cb > srv[t].cb)
                => \A ip \in DOMAIN peers[srv[t].node] :
                       /\ ip \in DOMAIN peers'[srv[t].node]
                       /\ peers'[srv[t].node][ip] = peers[srv[t].node][ip]
       /\ \A t \in DOMAIN tasks :
            (t \in DOMAIN tasks' /\ tasks'[t].cb > tasks[t].cb)
                => /\ t.ip \in DOMAIN peers'[t.node]
                   /\ peers'[t.node][t.ip]
                          = [type |-> "client", protocol |-> t,
                             name |-> tasks[t].name]]_vars

\* C36 witness: the listener has seen the handshakes of two connections
\* complete under the same key and its entry is still the one of the first,
\* while the dialing nodes hold the client entries of their links.
C36_Witness ==
    \E t \in DOMAIN srv, u \in DOMAIN srv :
        /\ t # u /\ srv[t].node = srv[u].node
        /\ srv[t].cb > 0 /\ srv[u].cb > 0
        /\ PeerKey(PeerLookup(t)) = PeerKey(PeerLookup(u))
        /\ peers[srv[t].node][PeerKey(PeerLookup(t))].protocol = t
        /\ tasks[u].cb > 0
        /\ peers[u.node][u.ip].protocol = u

\* C37 as stated (SpecWire). Message boundaries on the Chatter stream: the
\* message callback of the receiving end is called once per text sent, with
\* that text and in the order sent, so that once every byte of the stream
\* has been delivered the texts received are the texts sent; and before
\* that, never more callbacks than sends.
C37_MessageBoundaries ==
    /\ Len(call.got) <= Len(call.sent)
    /\ call.stream = <<>> => call.got = call.sent

\* C38 as stated (SpecDisc). Every announcement handed to on_peer_found
\* carries a hostname: a datagram with the magic prefix whose JSON is an
\* object without a hostname field, or no object at all, is dropped before
\* on_peer_found and starts no connect task (hence no registry entry).
C38_HostnameRequired ==
    ( /\ rx.state = "handled"
      /\ rx.data.magic
      /\ rx.data.json.kind # "invalid"
      /\ \/ rx.data.json.kind # "object"
         \/ "hostname" \notin DOMAIN rx.data.json.val )
       => /\ rx.outcome = "dropped"
          /\ \A t \in TaskIds : tasks[t].name # None

\* C39 (SpecEngine). The lane-to-stream map of a connected HampterNode is
\* stable and injective: whatever send_text, send_telemetry and
\* send_video_data calls are made, a lane keeps the stream it was first
\* given, every send goes to the stream of its lane, and no two lanes have
\* the same stream.
C39_LaneMapStableInjective ==
    /\ [](/\ \A l1 \in DOMAIN call.stream_ids, l2 \in DOMAIN call.stream_ids :
                l1 # l2 => call.stream_ids[l1] # call.stream_ids[l2]
          /\ call.last.sent
                => /\ SendLane(call.last.op) \in DOMAIN call.stream_ids
                   /\ call.stream_ids[SendLane(call.last.op)] = call.last.stream)
    /\ [][\A lane \in DOMAIN call.stream_ids :
             /\ lane \in DOMAIN call'.stream_ids
             /\ call'.stream_ids[lane] = call.stream_ids[lane]]_vars

\* C39 witness: three sends on a connected node, two lanes in use, one of
\* them used twice
C39_Witness ==
    /\ call.connected
    /\ call.sends = 3
    /\ Cardinality(DOMAIN call.stream_ids) = 2
    /\ Cardinality(call.streams) = 2

====
